---- MODULE Spec2Model ----
(***************************************************************************)
(* A model of google.generativeai.types: the retriever facades (Corpus,    *)
(* Document, Chunk), the enum coercers and the helpers they share.         *)
(*                                                                         *)
(* Python values are tagged records, so that values of different Python    *)
(* types can be compared:                                                  *)
(*   None            [t |-> "none"]                                        *)
(*   int n           [t |-> "int", i |-> n]                                *)
(*   str             [t |-> "str", s |-> <the string>]                     *)
(*   enum member     [t |-> "enum", fam |-> <family>, name |-> <member>]   *)
(*   dict / list     [t |-> "dict" or "list", items |-> <sequence>], the    *)
(*                   items of a dict being <<key, value>> in its order      *)
(*   dataclass       [t |-> <class name>, <attribute> |-> <value>, ...]     *)
(* A call either returns or raises: Ok(v) / Raise(e).                      *)
(*                                                                         *)
(* Spec is the facades: one invocation of a method, or a listing session.  *)
(* SpecEnum is the enum coercers applied to one argument.                  *)
(* SpecCodec is the decoders and the tuning-data encoder applied to one    *)
(* input.                                                                  *)
(***************************************************************************)
EXTENDS Integers, Sequences, FiniteSets, TLC

VARIABLES
    enumv,    \* the call of a pure function under way (an enum coercer, a decoder,
              \* an encoder): the function, its input, its result
    ent,      \* the entities the program holds: its Corpus, its Document, its Chunk
    task,     \* the suspending method waiting for its remote call, or Nothing
    last,     \* the invocation that has finished: arguments, calls, answer, result
    gens      \* the generator each consumer holds

vars == <<enumv, ent, task, last, gens>>

---------------------------------------------------------------------------
(* Python values *)

None == [t |-> "none"]

PyInt(n) == [t |-> "int", i |-> n]

Str(text) == [t |-> "str", s |-> text]

Member(fam, name) == [t |-> "enum", fam |-> fam, name |-> name]

Ok(v) == [ok |-> TRUE, val |-> v]

Raise(e) == [ok |-> FALSE, err |-> e]

\* An exception with the text of its message.
RaiseText(e, text) == [ok |-> FALSE, err |-> e, text |-> text]

\* The i-th character of a string, as a string of length one.
CharAt(s, i) == SubSeq(s, i, i)

UpperLetters == "ABCDEFGHIJKLMNOPQRSTUVWXYZ"

LowerLetters == "abcdefghijklmnopqrstuvwxyz"

\* The string s, with from's letters replaced by to's.
RECURSIVE MapString(_, _, _)
MapString(s, from, to) ==
    LET c == CharAt(s, 1)
        mapped == IF \E i \in 1 .. Len(from) : CharAt(from, i) = c
                  THEN CharAt(to, CHOOSE i \in 1 .. Len(from) : CharAt(from, i) = c)
                  ELSE c
    IN  IF s = "" THEN "" ELSE mapped \o MapString(SubSeq(s, 2, Len(s)), from, to)

\* str.lower() and str.upper() of a Python string
LowerText(s) == MapString(s, UpperLetters, LowerLetters)

UpperText(s) == MapString(s, LowerLetters, UpperLetters)

\* x.lower() of a str value
Lower(x) == Str(LowerText(x.s))

\* isinstance(x, str)
IsStr(x) == x.t = "str"

---------------------------------------------------------------------------
(* Enum families.  The members are proto enums, that is IntEnums: a member *)
(* hashes and compares equal to its wire value, so as a dict key it is the *)
(* same key as that integer.                                               *)

\* The largest integer tried as a coercion input.
MaxEnumInt == 11

\* The revisions of the generated protos package the layer may be built
\* against: "dense" numbers the eight operators the table names 0..7,
\* "proto" is the published Condition.Operator numbering, in which GREATER
\* (a member the table does not name) takes the wire value 5.
ProtoRevs == {"dense", "proto"}

OperatorNames ==
    <<"OPERATOR_UNSPECIFIED", "LESS", "LESS_EQUAL", "EQUAL", "GREATER_EQUAL",
      "NOT_EQUAL", "INCLUDES", "EXCLUDES">>

Operator(name) == Member("Operator", name)

State(name) == Member("State", name)

TunedModelState(name) == Member("TunedModelState", name)

\* int(member): the wire value of an enum member.
WireValue(rev, m) ==
    IF m.fam = "Operator"
    THEN LET k == CHOOSE i \in DOMAIN OperatorNames : OperatorNames[i] = m.name
         IN  IF rev = "proto" /\ k >= 6 THEN k ELSE k - 1
    ELSE IF m.fam = "State"
    THEN (CASE m.name = "STATE_UNSPECIFIED" -> 0
            [] m.name = "STATE_PENDING_PROCESSING" -> 1
            [] m.name = "STATE_ACTIVE" -> 2
            [] m.name = "STATE_FAILED" -> 10)
    ELSE (CASE m.name = "STATE_UNSPECIFIED" -> 0
            [] m.name = "CREATING" -> 1
            [] m.name = "ACTIVE" -> 2
            [] m.name = "FAILED" -> 3)

\* The dict key a value is: an enum member is the key of its wire value.
HashKey(rev, x) == IF x.t = "enum" THEN PyInt(WireValue(rev, x)) ELSE x

\* A dict display {k1: v1, k2: v2, ...} is the sequence of its items as
\* written; a later item with an equal key replaces the earlier one, so a
\* lookup finds the last item written for the key.
DictHas(items, key) == \E i \in DOMAIN items : items[i][1] = key

DictGet(items, key) ==
    LET hits == {i \in DOMAIN items : items[i][1] = key}
        latest == CHOOSE i \in hits : \A j \in hits : j <= i
    IN  items[latest][2]

\* d[key]: the value, or KeyError
Subscript(items, key) ==
    IF DictHas(items, key) THEN Ok(DictGet(items, key)) ELSE Raise("KeyError")

_OPERATOR(rev) ==
    LET K(name) == HashKey(rev, Operator(name))
        V(name) == Operator(name)
    IN  << <<K("OPERATOR_UNSPECIFIED"), V("OPERATOR_UNSPECIFIED")>>,
           <<PyInt(0), V("OPERATOR_UNSPECIFIED")>>,
           <<Str("operator_unspecified"), V("OPERATOR_UNSPECIFIED")>>,
           <<Str("unspecified"), V("OPERATOR_UNSPECIFIED")>>,
           <<K("LESS"), V("LESS")>>,
           <<PyInt(1), V("LESS")>>,
           <<Str("operator_less"), V("LESS")>>,
           <<Str("less"), V("LESS")>>,
           <<Str("<"), V("LESS")>>,
           <<K("LESS_EQUAL"), V("LESS_EQUAL")>>,
           <<PyInt(2), V("LESS_EQUAL")>>,
           <<Str("operator_less_equal"), V("LESS_EQUAL")>>,
           <<Str("less_equal"), V("LESS_EQUAL")>>,
           <<Str("<="), V("LESS_EQUAL")>>,
           <<K("EQUAL"), V("EQUAL")>>,
           <<PyInt(3), V("EQUAL")>>,
           <<Str("operator_equal"), V("EQUAL")>>,
           <<Str("equal"), V("EQUAL")>>,
           <<Str("=="), V("EQUAL")>>,
           <<K("GREATER_EQUAL"), V("GREATER_EQUAL")>>,
           <<PyInt(4), V("GREATER_EQUAL")>>,
           <<Str("operator_greater_equal"), V("GREATER_EQUAL")>>,
           <<Str("greater_equal"), V("GREATER_EQUAL")>>,
           <<K("NOT_EQUAL"), V("NOT_EQUAL")>>,
           <<PyInt(5), V("NOT_EQUAL")>>,
           <<Str("operator_not_equal"), V("NOT_EQUAL")>>,
           <<Str("not_equal"), V("NOT_EQUAL")>>,
           <<Str("!="), V("NOT_EQUAL")>>,
           <<K("INCLUDES"), V("INCLUDES")>>,
           <<PyInt(6), V("INCLUDES")>>,
           <<Str("operator_includes"), V("INCLUDES")>>,
           <<Str("includes"), V("INCLUDES")>>,
           <<K("EXCLUDES"), V("EXCLUDES")>>,
           <<PyInt(6), V("EXCLUDES")>>,
           <<Str("operator_excludes"), V("EXCLUDES")>>,
           <<Str("excludes"), V("EXCLUDES")>>,
           <<Str("not in"), V("EXCLUDES")>> >>

_STATE ==
    LET K(name) == HashKey("dense", State(name))
        V(name) == State(name)
    IN  << <<K("STATE_UNSPECIFIED"), V("STATE_UNSPECIFIED")>>,
           <<PyInt(0), V("STATE_UNSPECIFIED")>>,
           <<Str("state_unspecifed"), V("STATE_UNSPECIFIED")>>,
           <<Str("unspecified"), V("STATE_UNSPECIFIED")>>,
           <<K("STATE_PENDING_PROCESSING"), V("STATE_PENDING_PROCESSING")>>,
           <<PyInt(1), V("STATE_PENDING_PROCESSING")>>,
           <<Str("pending_processing"), V("STATE_PENDING_PROCESSING")>>,
           <<Str("pending"), V("STATE_PENDING_PROCESSING")>>,
           <<K("STATE_ACTIVE"), V("STATE_ACTIVE")>>,
           <<PyInt(2), V("STATE_ACTIVE")>>,
           <<Str("state_active"), V("STATE_ACTIVE")>>,
           <<Str("active"), V("STATE_ACTIVE")>>,
           <<K("STATE_FAILED"), V("STATE_FAILED")>>,
           <<PyInt(10), V("STATE_FAILED")>>,
           <<Str("state_failed"), V("STATE_FAILED")>>,
           <<Str("failed"), V("STATE_FAILED")>> >>

_TUNED_MODEL_STATES ==
    LET K(name) == HashKey("dense", TunedModelState(name))
        I(name) == PyInt(WireValue("dense", TunedModelState(name)))
        V(name) == TunedModelState(name)
    IN  << <<K("ACTIVE"), V("ACTIVE")>>,
           <<I("ACTIVE"), V("ACTIVE")>>,
           <<Str("active"), V("ACTIVE")>>,
           <<K("CREATING"), V("CREATING")>>,
           <<I("CREATING"), V("CREATING")>>,
           <<Str("creating"), V("CREATING")>>,
           <<K("FAILED"), V("FAILED")>>,
           <<I("FAILED"), V("FAILED")>>,
           <<Str("failed"), V("FAILED")>>,
           <<K("STATE_UNSPECIFIED"), V("STATE_UNSPECIFIED")>>,
           <<I("STATE_UNSPECIFIED"), V("STATE_UNSPECIFIED")>>,
           <<Str("state_unspecified"), V("STATE_UNSPECIFIED")>>,
           <<Str("unspecified"), V("STATE_UNSPECIFIED")>>,
           <<None, V("STATE_UNSPECIFIED")>> >>

to_operator(rev, x) ==
    LET y == IF IsStr(x) THEN Lower(x) ELSE x
    IN  Subscript(_OPERATOR(rev), HashKey(rev, y))

to_state(x) ==
    LET y == IF IsStr(x) THEN Lower(x) ELSE x
    IN  Subscript(_STATE, HashKey("dense", y))

\* to_tuned_model_state written with dict.get and a default instead of d[x]
to_tuned_model_state_get_default(x) ==
    LET y == IF IsStr(x) THEN Lower(x) ELSE x
        k == HashKey("dense", y)
    IN  IF DictHas(_TUNED_MODEL_STATES, k)
        THEN Ok(DictGet(_TUNED_MODEL_STATES, k))
        ELSE Ok(TunedModelState("STATE_UNSPECIFIED"))

to_tuned_model_state(x) ==
    LET y == IF IsStr(x) THEN Lower(x) ELSE x
    IN  Subscript(_TUNED_MODEL_STATES, HashKey("dense", y))

\* decode_tuned_model's handling of the state key:
\*   tuned_model["state"] = to_tuned_model_state(tuned_model.pop("state", None))
\* raw is the value under the key, or Absent when the record has no such key.
Absent == [t |-> "absent"]

decode_tuned_model_state(raw) ==
    LET popped == IF raw = Absent THEN None ELSE raw
    IN  to_tuned_model_state(popped)

---------------------------------------------------------------------------
(* Resource names *)

\* {0,38} in _VALID_NAME
NameMidMax == 38

\* len(name) < 40 in valid_name
NameLenLimit == 40

Digits == "0123456789"

LowerAlnum == LowerLetters \o Digits

\* c is one of the characters of the class
InClass(c, class) == \E i \in 1 .. Len(class) : CharAt(class, i) = c

\* re.match(_VALID_NAME, name) is not None, with
\* _VALID_NAME = r"[a-z0-9]([a-z0-9-]{0,38}[a-z0-9])$": the match starts at
\* the first character and takes k middle characters for some k in 0..38;
\* `$` matches at the end of the string or just before a newline that ends it.
MatchValidName(name) ==
    LET n == Len(name)
    IN  \E k \in 0 .. NameMidMax :
            /\ k + 2 <= n
            /\ InClass(CharAt(name, 1), LowerAlnum)
            /\ \A i \in 2 .. k + 1 : InClass(CharAt(name, i), LowerAlnum \o "-")
            /\ InClass(CharAt(name, k + 2), LowerAlnum)
            /\ (k + 2 = n \/ (k + 2 = n - 1 /\ CharAt(name, n) = "\n"))

\* valid_name(name), as a truth value
valid_name(name) == MatchValidName(name) /\ Len(name) < NameLenLimit

\* {0,61} in _TUNED_MODEL_VALID_NAME
TunedNameMidMax == 61

\* valid_tuned_model_name(name): re.match(_TUNED_MODEL_VALID_NAME, name) is
\* not None, with _TUNED_MODEL_VALID_NAME = r"[a-z](([a-z0-9-]{0,61}[a-z0-9])?)$":
\* a lowercase letter, then nothing or k middle characters (k in 0..61) and
\* a closing one; `$` matches at the end of the string or just before a
\* newline that ends it.
valid_tuned_model_name(name) ==
    LET n == Len(name)
        AtEnd(m) == m = n \/ (m = n - 1 /\ CharAt(name, n) = "\n")
    IN  /\ n >= 1
        /\ InClass(CharAt(name, 1), LowerLetters)
        /\ \/ AtEnd(1)
           \/ \E k \in 0 .. TunedNameMidMax :
                 /\ k + 2 <= n
                 /\ \A i \in 2 .. k + 1 : InClass(CharAt(name, i), LowerAlnum \o "-")
                 /\ InClass(CharAt(name, k + 2), LowerAlnum)
                 /\ AtEnd(k + 2)

\* c in s, for a character c: "/" in name, "." in time
Contains(s, c) == InClass(c, s)

---------------------------------------------------------------------------
(* Timestamps.  A wire timestamp is the string the protos package renders, *)
(* a datetime is [base, micro, tz] with base the "YYYY-MM-DDTHH:MM:SS"     *)
(* text, micro the microsecond field and tz "utc" or "naive".              *)

Datetime(base, micro, tz) == [t |-> "datetime", base |-> base, micro |-> micro, tz |-> tz]

\* The length of the run of digits of s that starts at position i.
RECURSIVE DigitRun(_, _)
DigitRun(s, i) ==
    IF i <= Len(s) /\ InClass(CharAt(s, i), Digits) THEN 1 + DigitRun(s, i + 1) ELSE 0

\* int(digits) of a string of digits
RECURSIVE ToNat(_)
ToNat(ds) ==
    IF ds = "" THEN 0
    ELSE 10 * ToNat(SubSeq(ds, 1, Len(ds) - 1))
           + (CHOOSE d \in 0 .. 9 : CharAt(Digits, d + 1) = CharAt(ds, Len(ds)))

RECURSIVE Pow10(_)
Pow10(n) == IF n = 0 THEN 1 ELSE 10 * Pow10(n - 1)

\* str(n) of a natural number
RECURSIVE NatText(_)
NatText(n) ==
    IF n < 10 THEN CharAt(Digits, n + 1)
    ELSE NatText(n \div 10) \o CharAt(Digits, (n % 10) + 1)

\* f"{n:06d}"
RECURSIVE ZeroPad(_, _)
ZeroPad(text, width) == IF Len(text) >= width THEN text ELSE ZeroPad("0" \o text, width)

\* int(round(float("." + ds) * 1e6)): the fraction in microseconds, rounded
\* to the nearest integer, a tie to the even one.
RoundMicros(ds) ==
    LET n == Len(ds)
        Nearest(q, r, unit) ==
            IF 2 * r > unit \/ (2 * r = unit /\ q % 2 = 1) THEN q + 1 ELSE q
        Scaled(v, unit) ==
            IF n <= 6 THEN v * Pow10(6 - n) ELSE Nearest(v \div unit, v % unit, unit)
    IN  Scaled(ToNat(ds), IF n <= 6 THEN 1 ELSE Pow10(n - 6))

\* _fix_microseconds(match), match.group(0) being "." and the digits ds
_fix_microseconds(ds) == "." \o ZeroPad(NatText(RoundMicros(ds)), 6)

\* re.sub(r"\.\d+", _fix_microseconds, time)
RECURSIVE SubFractions(_)
SubFractions(s) ==
    LET Sub(n) ==
            IF s = "" THEN ""
            ELSE IF CharAt(s, 1) = "." /\ n > 0
            THEN _fix_microseconds(SubSeq(s, 2, n + 1))
                    \o SubFractions(SubSeq(s, n + 2, Len(s)))
            ELSE CharAt(s, 1) \o SubFractions(SubSeq(s, 2, Len(s)))
    IN  Sub(DigitRun(s, 2))

\* The shape of "%Y-%m-%dT%H:%M:%S" with every field at full width:
\* a digit where the shape has a 9, the shape's own character elsewhere.
DateShape == "9999-99-99T99:99:99"

HasDateShape(b) ==
    /\ Len(b) = Len(DateShape)
    /\ \A i \in 1 .. Len(DateShape) :
          IF CharAt(DateShape, i) = "9" THEN InClass(CharAt(b, i), Digits)
          ELSE CharAt(b, i) = CharAt(DateShape, i)

\* The ValueError of strptime(s, format): the format matches no prefix of s
\* (matched = 0), or it matches the first `matched` characters and more follow.
StrptimeError(s, format, matched) ==
    IF matched = 0
    THEN RaiseText("ValueError",
                   "time data '" \o s \o "' does not match format '" \o format \o "'")
    ELSE RaiseText("ValueError",
                   "unconverted data remains: " \o SubSeq(s, matched + 1, Len(s)))

\* datetime.datetime.strptime(s, "%Y-%m-%dT%H:%M:%SZ")
strptime_seconds(s) ==
    LET b == Len(DateShape)
    IN  IF Len(s) >= b + 1 /\ HasDateShape(SubSeq(s, 1, b)) /\ CharAt(s, b + 1) = "Z"
        THEN IF Len(s) = b + 1 THEN Ok(Datetime(SubSeq(s, 1, b), 0, "naive"))
             ELSE StrptimeError(s, "%Y-%m-%dT%H:%M:%SZ", b + 1)
        ELSE StrptimeError(s, "%Y-%m-%dT%H:%M:%SZ", 0)

\* datetime.datetime.strptime(s, "%Y-%m-%dT%H:%M:%S.%fZ"): %f takes one to
\* six digits and pads them on the right to microseconds.
strptime_fraction(s) ==
    LET b == Len(DateShape)
        Parsed(f) ==
            IF /\ Len(s) >= b + 3
               /\ HasDateShape(SubSeq(s, 1, b))
               /\ CharAt(s, b + 1) = "."
               /\ f >= 1
               /\ Len(s) >= b + 1 + f + 1
               /\ CharAt(s, b + 1 + f + 1) = "Z"
            THEN IF Len(s) = b + 1 + f + 1
                 THEN Ok(Datetime(SubSeq(s, 1, b),
                                  ToNat(SubSeq(s, b + 2, b + 1 + f)) * Pow10(6 - f),
                                  "naive"))
                 ELSE StrptimeError(s, "%Y-%m-%dT%H:%M:%S.%fZ", b + f + 2)
            ELSE StrptimeError(s, "%Y-%m-%dT%H:%M:%S.%fZ", 0)
        AtMostSix(n) == IF n > 6 THEN 6 ELSE n
    IN  Parsed(AtMostSix(DigitRun(s, b + 2)))

\* A dict without one of its keys.
Without(d, key) == [k \in DOMAIN d \ {key} |-> d[k]]

\* A dict with d[key] = value
With(d, key, value) == [k \in DOMAIN d \cup {key} |-> IF k = key THEN value ELSE d[k]]

\* idecode_time(parent, name): the dict afterwards, or the error raised.  A
\* None (or missing) time leaves the dict without the key; `"." in time`
\* raises TypeError for a time that is no str (a datetime, a number).
idecode_time(parent, name) ==
    LET rest == Without(parent, name)
        Stored(dt) ==
            IF dt.ok THEN Ok(With(rest, name, [dt.val EXCEPT !.tz = "utc"])) ELSE dt
        Decoded(time) ==
            IF time = None THEN Ok(rest)
            ELSE IF ~IsStr(time) THEN Raise("TypeError")
            ELSE IF Contains(time.s, ".") THEN Stored(strptime_fraction(SubFractions(time.s)))
            ELSE Stored(strptime_seconds(time.s))
    IN  Decoded(IF name \in DOMAIN parent THEN parent[name] ELSE None)

---------------------------------------------------------------------------
(* Update mappings and the field-path updater.  A Python dict is the       *)
(* sequence of its items <<key, value>> in insertion order, its keys       *)
(* distinct; an update value is a str or a nested dict.                    *)

Dict(items) == [t |-> "dict", items |-> items]

List(items) == [t |-> "list", items |-> items]

IsDict(v) == v.t = "dict"

\* d[key] = value on an insertion-ordered dict: a key already there keeps
\* its place and takes the new value, a new key goes to the end.
SetItem(items, key, value) ==
    IF \E i \in DOMAIN items : items[i][1] = key
    THEN [i \in DOMAIN items |-> IF items[i][1] = key THEN <<key, value>> ELSE items[i]]
    ELSE Append(items, <<key, value>>)

\* flatten_update_paths(updates), written into the dict acc: a nested dict
\* under key contributes its own flattened leaves as f"{key}.{sub_key}".
RECURSIVE FlattenInto(_, _, _)
FlattenInto(acc, prefix, items) ==
    IF items = <<>> THEN acc
    ELSE LET key == items[1][1]
             value == items[1][2]
             here == IF IsDict(value)
                     THEN FlattenInto(acc, prefix \o key \o ".", value.items)
                     ELSE SetItem(acc, prefix \o key, value)
         IN  FlattenInto(here, prefix, Tail(items))

flatten_update_paths(updates) == FlattenInto(<<>>, "", updates)

\* path.split(".")
RECURSIVE Split(_)
Split(path) ==
    IF \E i \in 1 .. Len(path) : CharAt(path, i) = "."
    THEN LET dot == CHOOSE i \in 1 .. Len(path) :
                        /\ CharAt(path, i) = "."
                        /\ \A j \in 1 .. i - 1 : CharAt(path, j) # "."
         IN  <<SubSeq(path, 1, dot - 1)>> \o Split(SubSeq(path, dot + 1, Len(path)))
    ELSE <<path>>

\* An instance of one of the layer's dataclasses: its attributes are the
\* record's fields other than t.
IsObject(v) == v.t \in {"Corpus", "Document", "Chunk", "ChunkData"}

HasAttr(obj, attr) == IsObject(obj) /\ attr \in DOMAIN obj \ {"t"}

\* _apply_update from the split path on: getattr for every part but the
\* last, setattr for the last.  The object afterwards, or AttributeError.
RECURSIVE ApplyParts(_, _, _)
ApplyParts(obj, parts, value) ==
    IF Len(parts) = 1
    THEN IF IsObject(obj) THEN Ok(With(obj, parts[1], value)) ELSE Raise("AttributeError")
    ELSE IF HasAttr(obj, parts[1])
    THEN LET inner == ApplyParts(obj[parts[1]], Tail(parts), value)
         IN  IF inner.ok THEN Ok(With(obj, parts[1], inner.val)) ELSE inner
    ELSE Raise("AttributeError")

\* the same with getattr left out: the last part is set on the object itself
ApplyLastPartOnly(obj, path, value) ==
    LET parts == Split(path)
    IN  IF IsObject(obj) THEN Ok(With(obj, parts[Len(parts)], value))
        ELSE Raise("AttributeError")

\* Corpus._apply_update, Document._apply_update, Chunk._apply_update
_apply_update(obj, path, value) == ApplyParts(obj, Split(path), value)

\* for path, value in updates.items(): self._apply_update(path, value)
RECURSIVE ApplyAll(_, _)
ApplyAll(obj, items) ==
    IF items = <<>> THEN Ok(obj)
    ELSE LET one == _apply_update(obj, items[1][1], items[1][2])
         IN  IF one.ok THEN ApplyAll(one.val, Tail(items)) ELSE one

\* field_mask = FieldMask(); for path in updates.keys(): field_mask.paths.append(path)
FieldMask(items) == [i \in DOMAIN items |-> items[i][1]]

---------------------------------------------------------------------------
(* Entities and their decoders *)

ChunkData(text) == [t |-> "ChunkData", string_value |-> text]

\* Corpus.to_dict
Corpus_to_dict(self) == [name |-> self.name, display_name |-> self.display_name]

\* Document.to_dict
Document_to_dict(self) ==
    [name |-> self.name, display_name |-> self.display_name,
     custom_metadata |-> self.custom_metadata]

\* dataclasses.asdict(self.data)
asdict(data) ==
    IF data.t = "ChunkData" THEN Ok(Dict(<< <<"string_value", data.string_value>> >>))
    ELSE Raise("TypeError")

\* Chunk.to_dict
Chunk_to_dict(self) ==
    LET Rendered(data) ==
            IF data.ok
            THEN Ok([name |-> self.name, data |-> data.val,
                     custom_metadata |-> self.custom_metadata, state |-> self.state])
            ELSE data
    IN  IF ~HasAttr(self, "data") THEN Raise("AttributeError")
        ELSE Rendered(asdict(self.data))

\* The time arguments of Chunk.__init__: None and a datetime are kept, a
\* string is parsed with "%Y-%m-%dT%H:%M:%S.%fZ".
ChunkTime(time) ==
    IF time = None \/ time.t = "datetime" THEN Ok(time) ELSE strptime_fraction(time.s)

\* Chunk(**chunk) for a dict chunk: the Chunk, or the error raised.
Chunk_init(chunk) ==
    LET required == {"name", "data", "custom_metadata", "state"}
        allowed == required \cup {"create_time", "update_time"}
        arg(k) == IF k \in DOMAIN chunk THEN chunk[k] ELSE None
        WithData(fields, data) ==
            IF IsStr(data) THEN Ok(With(fields, "data", ChunkData(data)))
            ELSE IF IsDict(data)
            THEN Ok(With(fields, "data", ChunkData(DictGet(data.items, "string_value"))))
            ELSE Ok(fields)
        Built(state, created, updated) ==
            IF ~state.ok THEN state
            ELSE IF ~created.ok THEN created
            ELSE IF ~updated.ok THEN updated
            ELSE WithData([t |-> "Chunk", name |-> chunk.name,
                           custom_metadata |-> IF chunk.custom_metadata = None THEN List(<<>>)
                                               ELSE chunk.custom_metadata,
                           state |-> state.val, create_time |-> created.val,
                           update_time |-> updated.val],
                          chunk.data)
    IN  IF ~(required \subseteq DOMAIN chunk /\ DOMAIN chunk \subseteq allowed)
        THEN Raise("TypeError")
        ELSE Built(to_state(chunk.state), ChunkTime(arg("create_time")),
                   ChunkTime(arg("update_time")))

\* decode_chunk(chunk), chunk the message as type(chunk).to_dict renders it
decode_chunk(chunk) ==
    LET Second(c2) == IF ~c2.ok THEN c2 ELSE Chunk_init(c2.val)
        First(c1) == IF ~c1.ok THEN c1 ELSE Second(idecode_time(c1.val, "update_time"))
    IN  First(idecode_time(chunk, "create_time"))

\* Document(**document): every field of the dataclass is required
Document_init(document) ==
    IF DOMAIN document = {"name", "display_name", "custom_metadata", "create_time", "update_time"}
    THEN Ok([t |-> "Document", name |-> document.name,
             display_name |-> document.display_name,
             custom_metadata |-> document.custom_metadata,
             create_time |-> document.create_time, update_time |-> document.update_time])
    ELSE Raise("TypeError")

\* decode_document(document)
decode_document(document) ==
    LET Second(d2) == IF ~d2.ok THEN d2 ELSE Document_init(d2.val)
        First(d1) == IF ~d1.ok THEN d1 ELSE Second(idecode_time(d1.val, "update_time"))
    IN  First(idecode_time(document, "create_time"))

---------------------------------------------------------------------------
(* decode_tuned_model.  A raw record is the mapping from its keys to their *)
(* values (a TLA+ record without the tag t); the nested tuned_model_source,*)
(* tuning_task, hyperparameters and snapshot records are mappings too, the *)
(* snapshots a list of them.                                               *)

\* isinstance(v, Mapping): what `**v` and v.pop need
IsMapping(v) == "t" \notin DOMAIN v

\* The fields of the dataclasses and their defaults
TunedModelDefaults ==
    [name |-> None, source_model |-> None, base_model |-> None, display_name |-> Str(""),
     description |-> Str(""), temperature |-> None, top_p |-> None, top_k |-> None,
     state |-> TunedModelState("STATE_UNSPECIFIED"), create_time |-> None,
     update_time |-> None, tuning_task |-> None]

TuningTaskDefaults ==
    [start_time |-> None, complete_time |-> None, snapshots |-> List(<<>>),
     hyperparameters |-> None]

HyperparametersDefaults ==
    [epoch_count |-> PyInt(0), batch_size |-> PyInt(0), learning_rate |-> PyInt(0)]

\* cls(**kwargs) for a dataclass whose fields all have defaults: kwargs must
\* be a mapping and name fields only.
New(cls, defaults, kwargs) ==
    IF IsMapping(kwargs) /\ DOMAIN kwargs \subseteq DOMAIN defaults
    THEN Ok([k \in DOMAIN defaults \cup {"t"} |->
                IF k = "t" THEN cls
                ELSE IF k \in DOMAIN kwargs THEN kwargs[k] ELSE defaults[k]])
    ELSE Raise("TypeError")

\* for snap in snapshots: idecode_time(snap, "compute_time"): the snapshots
\* afterwards, or the first error.
RECURSIVE DecodeSnapshots(_)
DecodeSnapshots(snapshots) ==
    LET Rest(first, rest) ==
            IF ~first.ok THEN first
            ELSE IF ~rest.ok THEN rest
            ELSE Ok(<<first.val>> \o rest.val)
    IN  IF snapshots = <<>> THEN Ok(<<>>)
        ELSE Rest(idecode_time(snapshots[1], "compute_time"),
                  DecodeSnapshots(Tail(snapshots)))

\* The reconciliation of the two source fields in decode_tuned_model, d the
\* record with both keys popped: the record afterwards, or the KeyError of
\* a tuned_model_source without one of its keys, left the record as the
\* error leaves it.  First the reconciliation written with the two tests
\* in the other order, then the one of the source.
ReconcileSource_source_first(d, base_model, tuned_model_source) ==
    IF tuned_model_source = None
    THEN IF base_model = None THEN Ok(d)
         ELSE Ok(With(With(d, "base_model", base_model), "source_model", base_model))
    ELSE IF "base_model" \notin DOMAIN tuned_model_source
    THEN [ok |-> FALSE, err |-> "KeyError", left |-> d]
    ELSE IF "tuned_model" \notin DOMAIN tuned_model_source
    THEN [ok |-> FALSE, err |-> "KeyError",
          left |-> With(d, "base_model", tuned_model_source.base_model)]
    ELSE Ok(With(With(d, "base_model", tuned_model_source.base_model),
                 "source_model", tuned_model_source.tuned_model))

ReconcileSource(d, base_model, tuned_model_source) ==
    IF base_model # None
    THEN Ok(With(With(d, "base_model", base_model), "source_model", base_model))
    ELSE IF tuned_model_source = None THEN Ok(d)
    ELSE IF "base_model" \notin DOMAIN tuned_model_source
    THEN [ok |-> FALSE, err |-> "KeyError", left |-> d]
    ELSE IF "tuned_model" \notin DOMAIN tuned_model_source
    THEN [ok |-> FALSE, err |-> "KeyError",
          left |-> With(d, "base_model", tuned_model_source.base_model)]
    ELSE Ok(With(With(d, "base_model", tuned_model_source.base_model),
                 "source_model", tuned_model_source.tuned_model))

\* decode_tuned_model(tuned_model): out is the TunedModel or the error
\* raised, raw is the caller's record when the call is over.  A message
\* (is_proto) is first copied by to_dict; a dict is worked on in place.
decode_tuned_model(tuned_model, is_proto) ==
    LET Pop(d, key) == IF key \in DOMAIN d THEN d[key] ELSE None
        Left(out, d) == [out |-> out, raw |-> IF is_proto THEN tuned_model ELSE d]
        Built(d) == Left(New("TunedModel", TunedModelDefaults, d), d)
        TaskBuilt(d, tuning_task) ==
            IF tuning_task.ok THEN Built(With(d, "tuning_task", tuning_task.val)) ELSE Left(tuning_task, d)
        WithSnapshots(d, tuning_task, snaps) ==
            IF snaps = None THEN TaskBuilt(d, New("TuningTask", TuningTaskDefaults, tuning_task))
            ELSE IF snaps.ok
            THEN TaskBuilt(d, New("TuningTask", TuningTaskDefaults,
                                  With(tuning_task, "snapshots", List(snaps.val))))
            ELSE Left(snaps, d)
        Completed(d, tuning_task) ==
            IF ~tuning_task.ok THEN Left(tuning_task, d)
            ELSE WithSnapshots(d, Without(tuning_task.val, "snapshots"),
                               IF Pop(tuning_task.val, "snapshots") = None THEN None
                               ELSE DecodeSnapshots(tuning_task.val.snapshots.items))
        Started(d, tuning_task) ==
            IF tuning_task.ok THEN Completed(d, idecode_time(tuning_task.val, "complete_time"))
            ELSE Left(tuning_task, d)
        Hyped(d, tuning_task, hype) ==
            IF hype = None THEN Started(d, idecode_time(tuning_task, "start_time"))
            ELSE IF hype.ok
            THEN Started(d, idecode_time(With(tuning_task, "hyperparameters", hype.val),
                                         "start_time"))
            ELSE Left(hype, d)
        Task(d, tuning_task) ==
            IF tuning_task = None THEN Built(d)
            ELSE IF ~IsMapping(tuning_task) THEN Left(Raise("AttributeError"), d)
            ELSE Hyped(d, Without(tuning_task, "hyperparameters"),
                       IF Pop(tuning_task, "hyperparameters") = None THEN None
                       ELSE New("Hyperparameters", HyperparametersDefaults,
                                tuning_task.hyperparameters))
        Updated(d, r) ==
            IF r.ok THEN Task(Without(r.val, "tuning_task"), Pop(r.val, "tuning_task"))
            ELSE Left(r, Without(d, "update_time"))
        Created(d, r) ==
            IF r.ok THEN Updated(r.val, idecode_time(r.val, "update_time"))
            ELSE Left(r, Without(d, "create_time"))
        Sourced(d) ==
            IF d.ok THEN Created(d.val, idecode_time(d.val, "create_time"))
            ELSE Left(Raise(d.err), d.left)
        Stated(d, state) ==
            IF state.ok
            THEN Sourced(ReconcileSource(
                             Without(Without(With(d, "state", state.val), "base_model"),
                                     "tuned_model_source"),
                             Pop(d, "base_model"), Pop(d, "tuned_model_source")))
            ELSE Left(state, d)
    IN  Stated(Without(tuned_model, "state"),
               to_tuned_model_state(Pop(tuned_model, "state")))

---------------------------------------------------------------------------
(* The facades.  A method runs up to its remote call and then either has   *)
(* raised (Raised) or waits for the reply to the call it sent (Await);     *)
(* `then` names what the method does with the reply.  self is the entity   *)
(* as the method leaves it, calls are the remote calls that nested         *)
(* blocking methods made on the way.                                       *)

\* results_count > 100 in Corpus.query
CorpusQueryMax == 100

\* results_count >= 100 in Document.query
DocumentQueryLimit == 100

Call(client, rpc, request, options) ==
    [client |-> client, rpc |-> rpc, request |-> request, options |-> options]

Raised(self, calls, err) == [kind |-> "raised", self |-> self, calls |-> calls, err |-> err]

Await(self, calls, call, then) ==
    [kind |-> "await", self |-> self, calls |-> calls, call |-> call, then |-> then]

\* if client is None: client = get_default_retriever_client()
UseClient(client, default) == IF client = "none" THEN default ELSE client

\* if request_options is None: request_options = {}
RequestOptions(a) == IF a.request_options = "none" THEN "{}" ELSE a.request_options

\* the truth value of an Optional[int]
Truthy(x) == x # None /\ x.i # 0

Tuple(items) == [t |-> "tuple", items |-> items]

\* a glm.Chunk: an unset name is the empty string
GlmChunk(name, data) == [t |-> "glm.Chunk", name |-> name, data |-> data]

\* the value a proto string field takes from a Python argument
ProtoString(v) == IF v = None THEN "" ELSE v.s

\* Document._make_chunk(chunk)
_make_chunk(chunk) ==
    CASE chunk.t = "glm.Chunk" -> Ok(chunk)
      [] chunk.t = "str" -> Ok(GlmChunk("", chunk))
      [] chunk.t = "tuple" ->
           IF Len(chunk.items) \in {2, 3}
           THEN Ok(GlmChunk(ProtoString(chunk.items[1]), chunk.items[2]))
           ELSE Raise("ValueError: Tuples should have length 2 or 3")
      [] chunk.t = "dict" ->
           IF DictHas(chunk.items, "data")
           THEN Ok(GlmChunk(IF DictHas(chunk.items, "name")
                            THEN ProtoString(DictGet(chunk.items, "name")) ELSE "",
                            DictGet(chunk.items, "data")))
           ELSE Raise("KeyError")
      [] OTHER -> Raise("TypeError: Could not convert chunk")

\* The loop of _make_batch_create_chunk_request from item i (counted from
\* 0) on: the CreateChunkRequests, or the error _make_chunk raised.
RECURSIVE CreateChunkRequests(_, _, _)
CreateChunkRequests(self, chunks, i) ==
    IF chunks = <<>> THEN Ok(<<>>)
    ELSE LET Named(chunk, given) ==
                 [parent |-> self.name,
                  chunk |-> [name |-> Str(self.name.s \o "/chunks/" \o given),
                             data |-> Dict(<< <<"string_value", chunk.data>> >>)]]
             Request(chunk) == Named(chunk, IF chunk.name = "" THEN NatText(i) ELSE chunk.name)
             Appended(made, rest) ==
                 IF ~made.ok THEN made
                 ELSE IF ~rest.ok THEN rest
                 ELSE Ok(<<Request(made.val)>> \o rest.val)
         IN  Appended(_make_chunk(chunks[1]), CreateChunkRequests(self, Tail(chunks), i + 1))

\* chunks.items() of a mapping, a tuple value flattened: (key,) + value
FlattenedItems(items) ==
    [i \in DOMAIN items |->
        IF items[i][2].t = "tuple" THEN Tuple(<<Str(items[i][1])>> \o items[i][2].items)
        ELSE Tuple(<<Str(items[i][1]), items[i][2]>>)]

\* Document._make_batch_create_chunk_request(chunks)
_make_batch_create_chunk_request(self, chunks) ==
    IF chunks.t = "BatchCreateChunksRequest" THEN Ok(chunks.request)
    ELSE LET Request(requests) ==
                 IF requests.ok THEN Ok([parent |-> self.name, requests |-> requests.val])
                 ELSE requests
         IN  Request(CreateChunkRequests(self,
                         IF IsDict(chunks) THEN FlattenedItems(chunks.items)
                         ELSE chunks.items, 0))

\* A Chunk message as type(chunk).to_dict renders it.
ChunkMessage(name, text, state, create_time, update_time) ==
    [name |-> Str(name), data |-> Dict(<< <<"string_value", Str(text)>> >>),
     custom_metadata |-> List(<<>>), state |-> PyInt(state),
     create_time |-> create_time, update_time |-> update_time]

Failure(err) == [fail |-> TRUE, err |-> err]

Reply(msg) == [fail |-> FALSE, msg |-> msg]

\* The service behind the default client: the chunk it stores, and its
\* answer to GetChunkRequest(name).
StoredChunkName == "corpora/c1/documents/d1/chunks/c1"

StoredChunk(name) ==
    IF name = StoredChunkName
    THEN Reply(ChunkMessage(name, "stored", 2, Str("2024-01-01T00:00:00Z"),
                            Str("2024-01-02T00:00:00.5Z")))
    ELSE Failure("NotFound")

\* self.get_chunk(name=name) as batch_update_chunks calls it: Document.get_chunk
\* with client None and request_options None, run to its end.
get_chunk_blocking(self, name) ==
    LET Result(reply) == IF reply.fail THEN Raise(reply.err) ELSE decode_chunk(reply.msg)
        Fetched(request) ==
            [call |-> Call("default", "get_chunk", request, "{}"),
             result |-> Result(StoredChunk(request.name.s))]
    IN  Fetched([name |-> IF ~Contains(name.s, "/")
                          THEN Str(self.name.s \o "/chunks/" \o name.s)
                          ELSE name])

\* One (name, updates) pair of batch_update_chunks: the chunk is fetched,
\* the updates are flattened and applied to it, the request is built.
UpdateRequestOf(self, name, value) ==
    LET Stopped(got, err) == [calls |-> <<got.call>>, err |-> err, requests |-> <<>>]
        Request(got, updates, chunk) ==
            IF ~chunk.ok THEN Stopped(got, chunk.err)
            ELSE [calls |-> <<got.call>>, err |-> "",
                  requests |-> <<[chunk |-> chunk.val, update_mask |-> FieldMask(updates)]>>]
        Applied(got, updates, applied) ==
            IF ~applied.ok THEN Stopped(got, applied.err)
            ELSE Request(got, updates, Chunk_to_dict(applied.val))
        Flattened(got, updates) == Applied(got, updates, ApplyAll(got.result.val, updates))
        Fetched(got) ==
            IF ~got.result.ok THEN Stopped(got, got.result.err)
            ELSE IF ~IsDict(value) THEN Stopped(got, "AttributeError")
            ELSE Flattened(got, flatten_update_paths(value.items))
    IN  Fetched(get_chunk_blocking(self, name))

\* for key, value in chunks.items(): ...
RECURSIVE UpdateRequestsOfMapping(_, _)
UpdateRequestsOfMapping(self, items) ==
    IF items = <<>> THEN [calls |-> <<>>, err |-> "", requests |-> <<>>]
    ELSE LET Joined(one, rest) ==
                 IF one.err # "" THEN one
                 ELSE [calls |-> one.calls \o rest.calls, err |-> rest.err,
                       requests |-> one.requests \o rest.requests]
         IN  Joined(UpdateRequestOf(self, Str(items[1][1]), items[1][2]),
                    UpdateRequestsOfMapping(self, Tail(items)))

\* for chunk in chunks: ...
RECURSIVE UpdateRequestsOfIterable(_, _)
UpdateRequestsOfIterable(self, chunks) ==
    IF chunks = <<>> THEN [calls |-> <<>>, err |-> "", requests |-> <<>>]
    ELSE LET One(chunk) ==
                 CASE chunk.t = "UpdateChunkRequest" ->
                        [calls |-> <<>>, err |-> "", requests |-> <<chunk.request>>]
                   [] chunk.t = "tuple" ->
                        UpdateRequestOf(self, chunk.items[1], chunk.items[2])
                   [] OTHER ->
                        [calls |-> <<>>, err |-> "TypeError: chunks parameter",
                         requests |-> <<>>]
             Joined(one, rest) ==
                 IF one.err # "" THEN one
                 ELSE [calls |-> one.calls \o rest.calls, err |-> rest.err,
                       requests |-> one.requests \o rest.requests]
         IN  Joined(One(chunks[1]), UpdateRequestsOfIterable(self, Tail(chunks)))

DeleteChunkRequest(name) == [t |-> "DeleteChunkRequest", name |-> name]

\* all(isinstance(x, glm.DeleteChunkRequest) for x in chunks): its value and
\* the number of items it read (it stops at the first that is no request).
AllDeleteRequests(items) ==
    LET others == {i \in DOMAIN items : items[i].t # "DeleteChunkRequest"}
        first == CHOOSE i \in others : \A j \in others : i <= j
    IN  IF others = {} THEN [all |-> TRUE, taken |-> Len(items)]
        ELSE [all |-> FALSE, taken |-> first]

---------------------------------------------------------------------------
(* The blocking methods *)

\* Corpus.create_document: up to the remote call
Corpus_create_document(self, a) ==
    LET client == UseClient(a.client, "default")
        document_name == Str(self.name.s \o "/documents/" \o a.name.s)
        document(name) == [name |-> name, display_name |-> a.display_name,
                           custom_metadata |-> None]
        request(name) == [parent |-> self.name, document |-> document(name)]
        send(name) == Call(client, "create_document", request(name), RequestOptions(a))
    IN  IF a.name = None THEN Await(self, <<>>, send(None), "decode_document")
        ELSE IF valid_name(a.name.s) THEN Await(self, <<>>, send(document_name), "decode_document")
        ELSE Raised(self, <<>>, "ValueError: NAME_ERROR_MSG")

\* Corpus.get_document with the request sent a second time
Corpus_get_document_retry(self, a) ==
    LET client == UseClient(a.client, "default")
        name == IF ~Contains(a.name.s, "/") THEN Str(self.name.s \o "/documents/" \o a.name.s)
                ELSE a.name
        call == Call(client, "get_document", [name |-> name], RequestOptions(a))
    IN  Await(self, <<call>>, call, "decode_document")

\* Corpus.get_document: up to the remote call
Corpus_get_document(self, a) ==
    LET client == UseClient(a.client, "default")
        name == IF ~Contains(a.name.s, "/") THEN Str(self.name.s \o "/documents/" \o a.name.s)
                ELSE a.name
    IN  Await(self, <<>>, Call(client, "get_document", [name |-> name], RequestOptions(a)),
              "decode_document")

\* Corpus.update with the updates applied to the request only: the Corpus
\* itself keeps its fields
Corpus_update_request_only(self, a) ==
    LET client == UseClient(a.client, "default")
        Sent(updates, applied) ==
            IF ~applied.ok THEN Raised(self, <<>>, applied.err)
            ELSE Await(self, <<>>,
                       Call(client, "update_corpus",
                            [corpus |-> Corpus_to_dict(applied.val), update_mask |-> FieldMask(updates)],
                            RequestOptions(a)), "self")
        Checked(updates) ==
            IF \E i \in DOMAIN updates : updates[i][1] # "display_name"
            THEN Raised(self, <<>>, "ValueError: only display_name can be updated")
            ELSE Sent(updates, ApplyAll(self, updates))
    IN  Checked(flatten_update_paths(a.updates))

\* Corpus.update: up to the remote call
Corpus_update(self, a) ==
    LET client == UseClient(a.client, "default")
        Sent(updates, applied) ==
            IF ~applied.ok THEN Raised(self, <<>>, applied.err)
            ELSE Await(applied.val, <<>>,
                       Call(client, "update_corpus",
                            [corpus |-> Corpus_to_dict(applied.val), update_mask |-> FieldMask(updates)],
                            RequestOptions(a)), "self")
        Checked(updates) ==
            IF \E i \in DOMAIN updates : updates[i][1] # "display_name"
            THEN Raised(self, <<>>, "ValueError: only display_name can be updated")
            ELSE Sent(updates, ApplyAll(self, updates))
    IN  Checked(flatten_update_paths(a.updates))

\* Corpus.query with the bounds Document.query puts on results_count
Corpus_query_document_bounds(self, a) ==
    LET client == UseClient(a.client, "default")
        results_count == a.results_count
        request == [name |-> self.name, query |-> a.query, metadata_filters |-> List(<<>>),
                    results_count |-> results_count]
    IN  IF Truthy(results_count)
             /\ (results_count.i < 0 \/ results_count.i >= DocumentQueryLimit)
        THEN Raised(self, <<>>, "ValueError: results_count")
        ELSE Await(self, <<>>, Call(client, "query_corpus", request, RequestOptions(a)),
                   "relevant_chunks")

\* Corpus.query: up to the remote call
Corpus_query(self, a) ==
    LET client == UseClient(a.client, "default")
        results_count == a.results_count
        request == [name |-> self.name, query |-> a.query, metadata_filters |-> List(<<>>),
                    results_count |-> results_count]
    IN  IF Truthy(results_count) /\ results_count.i > CorpusQueryMax
        THEN Raised(self, <<>>, "ValueError: results_count")
        ELSE Await(self, <<>>, Call(client, "query_corpus", request, RequestOptions(a)),
                   "relevant_chunks")

\* Corpus.delete_document: up to the remote call
Corpus_delete_document(self, a) ==
    LET client == UseClient(a.client, "default")
        name == IF ~Contains(a.name.s, "/") THEN Str(self.name.s \o "/documents/" \o a.name.s)
                ELSE a.name
    IN  Await(self, <<>>, Call(client, "delete_document", [name |-> name, force |-> a.force],
                               RequestOptions(a)), "none")

\* Document.create_chunk with the name checked after the request is sent
Document_create_chunk_send_first(self, a) ==
    LET client == UseClient(a.client, "default")
        chunk(name) == [name |-> name, data |-> Dict(<< <<"string_value", a.data>> >>),
                        custom_metadata |-> List(<<>>)]
        send(name) == Call(client, "create_chunk", [parent |-> self.name, chunk |-> chunk(name)],
                           RequestOptions(a))
        chunk_name == Str(self.name.s \o "/chunks/" \o a.name.s)
    IN  IF a.name = None THEN Await(self, <<>>, send(None), "decode_chunk")
        ELSE IF valid_name(a.name.s) THEN Await(self, <<>>, send(chunk_name), "decode_chunk")
        ELSE Raised(self, <<send(chunk_name)>>, "ValueError: NAME_ERROR_MSG")

\* Document.create_chunk: up to the remote call
Document_create_chunk(self, a) ==
    LET client == UseClient(a.client, "default")
        chunk_name == Str(self.name.s \o "/chunks/" \o a.name.s)
        chunk(name) == [name |-> name, data |-> Dict(<< <<"string_value", a.data>> >>),
                        custom_metadata |-> List(<<>>)]
        request(name) == [parent |-> self.name, chunk |-> chunk(name)]
        send(name) == Call(client, "create_chunk", request(name), RequestOptions(a))
    IN  IF a.name = None THEN Await(self, <<>>, send(None), "decode_chunk")
        ELSE IF valid_name(a.name.s) THEN Await(self, <<>>, send(chunk_name), "decode_chunk")
        ELSE Raised(self, <<>>, "ValueError: NAME_ERROR_MSG")

\* Document.batch_create_chunks: up to the remote call
Document_batch_create_chunks(self, a) ==
    LET client == UseClient(a.client, "default")
        Sent(request) ==
            IF ~request.ok THEN Raised(self, <<>>, request.err)
            ELSE Await(self, <<>>,
                       Call(client, "batch_create_chunks", request.val, RequestOptions(a)),
                       "decode_chunks")
    IN  Sent(_make_batch_create_chunk_request(self, a.chunks))

\* Document.get_chunk: up to the remote call
Document_get_chunk(self, a) ==
    LET client == UseClient(a.client, "default")
        name == IF ~Contains(a.name.s, "/") THEN Str(self.name.s \o "/chunks/" \o a.name.s)
                ELSE a.name
    IN  Await(self, <<>>, Call(client, "get_chunk", [name |-> name], RequestOptions(a)),
              "decode_chunk")

\* Document.query with the lower bound of results_count only
Document_query_lower_bound_only(self, a) ==
    LET client == UseClient(a.client, "default")
        results_count == a.results_count
        request == [name |-> self.name, query |-> a.query, metadata_filters |-> List(<<>>),
                    results_count |-> results_count]
    IN  IF Truthy(results_count) /\ results_count.i < 0
        THEN Raised(self, <<>>, "ValueError: results_count")
        ELSE Await(self, <<>>, Call(client, "query_document", request, RequestOptions(a)),
                   "relevant_chunks")

\* Document.query: up to the remote call
Document_query(self, a) ==
    LET client == UseClient(a.client, "default")
        results_count == a.results_count
        request == [name |-> self.name, query |-> a.query, metadata_filters |-> List(<<>>),
                    results_count |-> results_count]
    IN  IF Truthy(results_count)
             /\ (results_count.i < 0 \/ results_count.i >= DocumentQueryLimit)
        THEN Raised(self, <<>>, "ValueError: results_count")
        ELSE Await(self, <<>>, Call(client, "query_document", request, RequestOptions(a)),
                   "relevant_chunks")

\* Document.update with the check made path by path while the updates are
\* applied: the paths before the first disallowed one are set, then it raises.
Document_update_apply_first(self, a) ==
    LET client == UseClient(a.client, "default")
        updates == flatten_update_paths(a.updates)
        bad == {i \in DOMAIN updates : updates[i][1] # "display_name"}
        stop == CHOOSE i \in bad : \A j \in bad : i <= j
        before == ApplyAll(self, SubSeq(updates, 1, stop - 1))
        applied == ApplyAll(self, updates)
        request == [document |-> Document_to_dict(applied.val),
                    update_mask |-> FieldMask(updates)]
    IN  IF bad # {}
        THEN Raised(before.val, <<>>, "ValueError: only display_name can be updated")
        ELSE Await(applied.val, <<>>,
                   Call(client, "update_document", request, RequestOptions(a)), "self")

\* Document.update: up to the remote call
Document_update(self, a) ==
    LET client == UseClient(a.client, "default")
        Sent(updates, applied) ==
            IF ~applied.ok THEN Raised(self, <<>>, applied.err)
            ELSE Await(applied.val, <<>>,
                       Call(client, "update_document",
                            [document |-> Document_to_dict(applied.val), update_mask |-> FieldMask(updates)],
                            RequestOptions(a)), "self")
        Checked(updates) ==
            IF \E i \in DOMAIN updates : updates[i][1] # "display_name"
            THEN Raised(self, <<>>, "ValueError: only display_name can be updated")
            ELSE Sent(updates, ApplyAll(self, updates))
    IN  Checked(flatten_update_paths(a.updates))

\* Document.batch_update_chunks: up to the remote call.  The chunks of a
\* mapping or of (name, updates) tuples are fetched with self.get_chunk(name=...),
\* the blocking method with no client and no request options given.
Document_batch_update_chunks(self, a) ==
    LET client == UseClient(a.client, "default")
        chunks == a.chunks
        Sent(built) ==
            IF built.err # "" THEN Raised(self, built.calls, built.err)
            ELSE Await(self, built.calls,
                       Call(client, "batch_update_chunks",
                            [parent |-> self.name, requests |-> built.requests],
                            RequestOptions(a)), "to_dict")
    IN  IF chunks.t = "BatchUpdateChunksRequest"
        THEN Await(self, <<>>, Call(client, "batch_update_chunks", chunks.request, "unset"),
                   "to_dict")
        ELSE IF IsDict(chunks) THEN Sent(UpdateRequestsOfMapping(self, chunks.items))
        ELSE Sent(UpdateRequestsOfIterable(self, chunks.items))

\* Document.delete_chunk: up to the remote call
Document_delete_chunk(self, a) ==
    LET client == UseClient(a.client, "default")
        name == IF ~Contains(a.name.s, "/") THEN Str(self.name.s \o "/chunks/" \o a.name.s)
                ELSE a.name
    IN  Await(self, <<>>, Call(client, "delete_chunk", [name |-> name], RequestOptions(a)),
              "none")

\* Document.batch_delete_chunks: up to the remote call.  all(...) reads
\* chunks once, the for loop reads it again: a list is read from its start
\* both times, a one-shot iterator goes on where all(...) stopped.
Document_batch_delete_chunks(self, a) ==
    LET client == UseClient(a.client, "default")
        chunks == a.chunks
        read == AllDeleteRequests(chunks.items)
        left == IF chunks.t = "iterator" THEN SubSeq(chunks.items, read.taken + 1, Len(chunks.items))
                ELSE chunks.items
        _request_list == [i \in DOMAIN left |-> DeleteChunkRequest(left[i])]
        request == [parent |-> self.name, requests |-> IF read.all THEN left ELSE _request_list]
    IN  Await(self, <<>>, Call(client, "batch_delete_chunks", request, RequestOptions(a)),
              "none")

\* Chunk.update: up to the remote call
Chunk_update(self, a) ==
    LET client == UseClient(a.client, "default")
        Sent(updates, applied, chunk) ==
            IF ~chunk.ok THEN Raised(applied.val, <<>>, chunk.err)
            ELSE Await(applied.val, <<>>,
                       Call(client, "update_chunk",
                            [chunk |-> chunk.val, update_mask |-> FieldMask(updates)],
                            RequestOptions(a)), "self")
        Applied(updates, applied) ==
            IF ~applied.ok THEN Raised(self, <<>>, applied.err)
            ELSE Sent(updates, applied, Chunk_to_dict(applied.val))
        Checked(updates) ==
            IF \E i \in DOMAIN updates : updates[i][1] # "data.string_value"
            THEN Raised(self, <<>>, "ValueError: only data can be updated")
            ELSE Applied(updates, ApplyAll(self, updates))
    IN  Checked(flatten_update_paths(a.updates))

\* Corpus.list_documents: the generator's body up to the remote call,
\* which it runs when its first item is asked for.
Corpus_list_documents(self, a) ==
    LET client == UseClient(a.client, "default")
        request == [parent |-> self.name, page_size |-> a.page_size]
    IN  Await(self, <<>>, Call(client, "list_documents", request, RequestOptions(a)),
              "yield decode_document")

\* Document.list_chunks: the generator's body up to the remote call,
\* which it runs when its first item is asked for.
Document_list_chunks(self, a) ==
    LET client == UseClient(a.client, "default")
        request == [parent |-> self.name, page_size |-> a.page_size]
    IN  Await(self, <<>>, Call(client, "list_chunks", request, RequestOptions(a)),
              "yield decode_chunk")

---------------------------------------------------------------------------
(* The suspending methods *)

\* Corpus.create_document_async: up to the awaited remote call
Corpus_create_document_async(self, a) ==
    LET client == UseClient(a.client, "default_async")
        document_name == Str(self.name.s \o "/documents/" \o a.name.s)
        document(name) == [name |-> name, display_name |-> a.display_name,
                           custom_metadata |-> None]
        request(name) == [parent |-> self.name, document |-> document(name)]
        send(name) == Call(client, "create_document", request(name), RequestOptions(a))
    IN  IF a.name = None THEN Await(self, <<>>, send(None), "decode_document")
        ELSE IF valid_name(a.name.s) THEN Await(self, <<>>, send(document_name), "decode_document")
        ELSE Raised(self, <<>>, "ValueError: NAME_ERROR_MSG")

\* Corpus.get_document_async: up to the awaited remote call
Corpus_get_document_async(self, a) ==
    LET client == UseClient(a.client, "default_async")
        name == IF ~Contains(a.name.s, "/") THEN Str(self.name.s \o "/documents/" \o a.name.s)
                ELSE a.name
    IN  Await(self, <<>>, Call(client, "get_document", [name |-> name], RequestOptions(a)),
              "decode_document")

\* Corpus.update_async: up to the awaited remote call
Corpus_update_async(self, a) ==
    LET client == UseClient(a.client, "default_async")
        Sent(updates, applied) ==
            IF ~applied.ok THEN Raised(self, <<>>, applied.err)
            ELSE Await(applied.val, <<>>,
                       Call(client, "update_corpus",
                            [corpus |-> Corpus_to_dict(applied.val), update_mask |-> FieldMask(updates)],
                            RequestOptions(a)), "self")
        Checked(updates) ==
            IF \E i \in DOMAIN updates : updates[i][1] # "display_name"
            THEN Raised(self, <<>>, "ValueError: only display_name can be updated")
            ELSE Sent(updates, ApplyAll(self, updates))
    IN  Checked(flatten_update_paths(a.updates))

\* Corpus.query_async with the bounds Document.query puts on results_count
Corpus_query_async_document_bounds(self, a) ==
    LET client == UseClient(a.client, "default_async")
        results_count == a.results_count
        request == [name |-> self.name, query |-> a.query, metadata_filters |-> List(<<>>),
                    results_count |-> results_count]
    IN  IF Truthy(results_count)
             /\ (results_count.i < 0 \/ results_count.i >= DocumentQueryLimit)
        THEN Raised(self, <<>>, "ValueError: results_count")
        ELSE Await(self, <<>>, Call(client, "query_corpus", request, RequestOptions(a)),
                   "relevant_chunks")

\* Corpus.query_async: up to the awaited remote call
Corpus_query_async(self, a) ==
    LET client == UseClient(a.client, "default_async")
        results_count == a.results_count
        request == [name |-> self.name, query |-> a.query, metadata_filters |-> List(<<>>),
                    results_count |-> results_count]
    IN  IF Truthy(results_count) /\ results_count.i > CorpusQueryMax
        THEN Raised(self, <<>>, "ValueError: results_count")
        ELSE Await(self, <<>>, Call(client, "query_corpus", request, RequestOptions(a)),
                   "relevant_chunks")

\* Corpus.delete_document_async: up to the awaited remote call
Corpus_delete_document_async(self, a) ==
    LET client == UseClient(a.client, "default_async")
        name == IF ~Contains(a.name.s, "/") THEN Str(self.name.s \o "/documents/" \o a.name.s)
                ELSE a.name
    IN  Await(self, <<>>, Call(client, "delete_document", [name |-> name, force |-> a.force],
                               RequestOptions(a)), "none")

\* Document.create_chunk_async: up to the awaited remote call
Document_create_chunk_async(self, a) ==
    LET client == UseClient(a.client, "default_async")
        chunk_name == Str(self.name.s \o "/chunks/" \o a.name.s)
        chunk(name) == [name |-> name, data |-> Dict(<< <<"string_value", a.data>> >>),
                        custom_metadata |-> List(<<>>)]
        request(name) == [parent |-> self.name, chunk |-> chunk(name)]
        send(name) == Call(client, "create_chunk", request(name), RequestOptions(a))
    IN  IF a.name = None THEN Await(self, <<>>, send(None), "decode_chunk")
        ELSE IF valid_name(a.name.s) THEN Await(self, <<>>, send(chunk_name), "decode_chunk")
        ELSE Raised(self, <<>>, "ValueError: NAME_ERROR_MSG")

\* Document.batch_create_chunks_async: up to the awaited remote call
Document_batch_create_chunks_async(self, a) ==
    LET client == UseClient(a.client, "default_async")
        Sent(request) ==
            IF ~request.ok THEN Raised(self, <<>>, request.err)
            ELSE Await(self, <<>>,
                       Call(client, "batch_create_chunks", request.val, RequestOptions(a)),
                       "decode_chunks")
    IN  Sent(_make_batch_create_chunk_request(self, a.chunks))

\* Document.get_chunk_async: up to the awaited remote call
Document_get_chunk_async(self, a) ==
    LET client == UseClient(a.client, "default_async")
        name == IF ~Contains(a.name.s, "/") THEN Str(self.name.s \o "/chunks/" \o a.name.s)
                ELSE a.name
    IN  Await(self, <<>>, Call(client, "get_chunk", [name |-> name], RequestOptions(a)),
              "decode_chunk")

\* Document.query_async: up to the awaited remote call
Document_query_async(self, a) ==
    LET client == UseClient(a.client, "default_async")
        results_count == a.results_count
        request == [name |-> self.name, query |-> a.query, metadata_filters |-> List(<<>>),
                    results_count |-> results_count]
    IN  IF Truthy(results_count)
             /\ (results_count.i < 0 \/ results_count.i >= DocumentQueryLimit)
        THEN Raised(self, <<>>, "ValueError: results_count")
        ELSE Await(self, <<>>, Call(client, "query_document", request, RequestOptions(a)),
                   "relevant_chunks")

\* Document.update_async: up to the awaited remote call
Document_update_async(self, a) ==
    LET client == UseClient(a.client, "default_async")
        Sent(updates, applied) ==
            IF ~applied.ok THEN Raised(self, <<>>, applied.err)
            ELSE Await(applied.val, <<>>,
                       Call(client, "update_document",
                            [document |-> Document_to_dict(applied.val), update_mask |-> FieldMask(updates)],
                            RequestOptions(a)), "self")
        Checked(updates) ==
            IF \E i \in DOMAIN updates : updates[i][1] # "display_name"
            THEN Raised(self, <<>>, "ValueError: only display_name can be updated")
            ELSE Sent(updates, ApplyAll(self, updates))
    IN  Checked(flatten_update_paths(a.updates))

\* Document.batch_update_chunks_async: up to the awaited remote call.  The chunks of a
\* mapping or of (name, updates) tuples are fetched with self.get_chunk(name=...),
\* the blocking method with no client and no request options given.
Document_batch_update_chunks_async(self, a) ==
    LET client == UseClient(a.client, "default_async")
        chunks == a.chunks
        Sent(built) ==
            IF built.err # "" THEN Raised(self, built.calls, built.err)
            ELSE Await(self, built.calls,
                       Call(client, "batch_update_chunks",
                            [parent |-> self.name, requests |-> built.requests],
                            RequestOptions(a)), "to_dict")
    IN  IF chunks.t = "BatchUpdateChunksRequest"
        THEN Await(self, <<>>, Call(client, "batch_update_chunks", chunks.request, "unset"),
                   "to_dict")
        ELSE IF IsDict(chunks) THEN Sent(UpdateRequestsOfMapping(self, chunks.items))
        ELSE Sent(UpdateRequestsOfIterable(self, chunks.items))

\* Document.delete_chunk_async: up to the awaited remote call
Document_delete_chunk_async(self, a) ==
    LET client == UseClient(a.client, "default_async")
        name == IF ~Contains(a.name.s, "/") THEN Str(self.name.s \o "/chunks/" \o a.name.s)
                ELSE a.name
    IN  Await(self, <<>>, Call(client, "delete_chunk", [name |-> name], RequestOptions(a)),
              "none")

\* Document.batch_delete_chunks_async: up to the awaited remote call.  all(...) reads
\* chunks once, the for loop reads it again: a list is read from its start
\* both times, a one-shot iterator goes on where all(...) stopped.
Document_batch_delete_chunks_async(self, a) ==
    LET client == UseClient(a.client, "default_async")
        chunks == a.chunks
        read == AllDeleteRequests(chunks.items)
        left == IF chunks.t = "iterator" THEN SubSeq(chunks.items, read.taken + 1, Len(chunks.items))
                ELSE chunks.items
        _request_list == [i \in DOMAIN left |-> DeleteChunkRequest(left[i])]
        request == [parent |-> self.name, requests |-> IF read.all THEN left ELSE _request_list]
    IN  Await(self, <<>>, Call(client, "batch_delete_chunks", request, RequestOptions(a)),
              "none")

\* Chunk.update_async: up to the awaited remote call
Chunk_update_async(self, a) ==
    LET client == UseClient(a.client, "default_async")
        Sent(updates, applied, chunk) ==
            IF ~chunk.ok THEN Raised(applied.val, <<>>, chunk.err)
            ELSE Await(applied.val, <<>>,
                       Call(client, "update_chunk",
                            [chunk |-> chunk.val, update_mask |-> FieldMask(updates)],
                            RequestOptions(a)), "self")
        Applied(updates, applied) ==
            IF ~applied.ok THEN Raised(self, <<>>, applied.err)
            ELSE Sent(updates, applied, Chunk_to_dict(applied.val))
        Checked(updates) ==
            IF \E i \in DOMAIN updates : updates[i][1] # "data.string_value"
            THEN Raised(self, <<>>, "ValueError: only data can be updated")
            ELSE Applied(updates, ApplyAll(self, updates))
    IN  Checked(flatten_update_paths(a.updates))

\* Corpus.list_documents_async: the generator's body up to the remote call,
\* which it runs when its first item is asked for.
Corpus_list_documents_async(self, a) ==
    LET client == UseClient(a.client, "default_async")
        request == [parent |-> self.name, page_size |-> a.page_size]
    IN  Await(self, <<>>, Call(client, "list_documents", request, RequestOptions(a)),
              "yield decode_document")

\* Document.list_chunks_async: the generator's body up to the remote call,
\* which it runs when its first item is asked for.
Document_list_chunks_async(self, a) ==
    LET client == UseClient(a.client, "default_async")
        request == [parent |-> self.name, page_size |-> a.page_size]
    IN  Await(self, <<>>, Call(client, "list_chunks", request, RequestOptions(a)),
              "yield decode_chunk")

---------------------------------------------------------------------------
(* The program as a state machine.  It holds one Corpus, one Document and  *)
(* one Chunk.  A behaviour is either one invocation of a method, blocking  *)
(* or suspending, or a listing session in which two consumers create and   *)
(* step generators: no method reads anything an earlier invocation left    *)
(* behind except the entity it is called on.                              *)

\* The entities the program holds when it starts.
Held ==
    [Corpus |-> [t |-> "Corpus", name |-> Str("corpora/c1"), display_name |-> Str("old"),
                 create_time |-> None, update_time |-> None],
     Document |-> [t |-> "Document", name |-> Str("corpora/c1/documents/d1"),
                   display_name |-> Str("old"), custom_metadata |-> List(<<>>),
                   create_time |-> None, update_time |-> None],
     Chunk |-> [t |-> "Chunk", name |-> Str(StoredChunkName), data |-> ChunkData(Str("old")),
                custom_metadata |-> List(<<>>), state |-> State("STATE_ACTIVE"),
                create_time |-> None, update_time |-> None]]

\* no invocation, no waiting method, no generator, no coercion
Nothing == [pc |-> "none", op |-> "none"]

Consumers == {"first", "second"}

\* A Document message as type(document).to_dict renders it; a timestamp
\* the message does not carry has no key.
DocumentMessage(display_name, create_time, update_time) ==
    LET base == [name |-> Str("corpora/c1/documents/d2"), display_name |-> Str(display_name),
                 custom_metadata |-> List(<<>>), create_time |-> create_time,
                 update_time |-> update_time]
        d1 == IF create_time = None THEN Without(base, "create_time") ELSE base
    IN  IF update_time = None THEN Without(d1, "update_time") ELSE d1

DocumentMessages ==
    {DocumentMessage("srv", Str("2024-01-01T00:00:00Z"), Str("2024-01-02T00:00:00.25Z")),
     DocumentMessage("srv", Str("2024-01-01T00:00:00.123456789Z"), Str("2024-01-02T00:00:00Z")),
     DocumentMessage("srv", Str("2024-01-01T00:00:00Z"), None),
     DocumentMessage("srv", Str("yesterday"), Str("2024-01-02T00:00:00Z"))}

ChunkMessages ==
    {ChunkMessage("corpora/c1/documents/d1/chunks/c2", "srv", 2,
                  Str("2024-01-01T00:00:00.5Z"), Str("2024-01-02T00:00:00.123456Z")),
     ChunkMessage("corpora/c1/documents/d1/chunks/c2", "srv", 1,
                  Str("2024-01-01T00:00:00Z"), Str("2024-01-02T00:00:00.1234567Z")),
     ChunkMessage("corpora/c1/documents/d1/chunks/c2", "srv", 3, None, None)}

\* What the client may answer to a call of rpc: a failure, or a response.
Responses(rpc) ==
    {Failure("ServiceUnavailable")} \cup
    (CASE rpc \in {"create_document", "get_document"} -> {Reply(m) : m \in DocumentMessages}
      [] rpc \in {"create_chunk", "get_chunk"} -> {Reply(m) : m \in ChunkMessages}
      [] rpc \in {"query_corpus", "query_document"} ->
            {Reply([relevant_chunks |-> <<>>])} \cup
            {Reply([relevant_chunks |-> <<[chunk_relevance_score |-> "0.5", chunk |-> m]>>]) :
                m \in ChunkMessages}
      [] rpc \in {"batch_create_chunks", "batch_update_chunks"} ->
            {Reply([chunks |-> <<>>])} \cup
            {Reply([chunks |-> <<m, m>>]) : m \in ChunkMessages}
      [] rpc = "list_documents" ->
            {Reply([items |-> <<>>])} \cup
            {Reply([items |-> <<m, n>>]) : m \in DocumentMessages,
                n \in {DocumentMessage("two", Str("2024-01-01T00:00:00Z"), Str("2024-01-02T00:00:00Z"))}}
      [] rpc = "list_chunks" ->
            {Reply([items |-> <<>>])} \cup
            {Reply([items |-> <<m, n>>]) : m \in ChunkMessages,
                n \in {ChunkMessage("corpora/c1/documents/d1/chunks/c3", "two", 2, None, None)}}
      [] OTHER -> {Reply(None)})

\* relevant_chunks of a query: RelevantChunk(chunk_relevance_score=..., chunk=Chunk(**c["chunk"]))
\* for each item of response["relevant_chunks"]
RECURSIVE RelevantChunks(_)
RelevantChunks(items) ==
    IF items = <<>> THEN Ok(<<>>)
    ELSE LET Appended(chunk, rest) ==
                 IF ~chunk.ok THEN chunk
                 ELSE IF ~rest.ok THEN rest
                 ELSE Ok(<<[t |-> "RelevantChunk",
                            chunk_relevance_score |-> items[1].chunk_relevance_score,
                            chunk |-> chunk.val]>> \o rest.val)
         IN  Appended(Chunk_init(items[1].chunk), RelevantChunks(Tail(items)))

\* [decode_chunk(chunk) for chunk in response.chunks]
RECURSIVE DecodeChunks(_)
DecodeChunks(chunks) ==
    IF chunks = <<>> THEN Ok(<<>>)
    ELSE LET Appended(chunk, rest) ==
                 IF ~chunk.ok THEN chunk
                 ELSE IF ~rest.ok THEN rest
                 ELSE Ok(<<chunk.val>> \o rest.val)
         IN  Appended(decode_chunk(chunks[1]), DecodeChunks(Tail(chunks)))

\* What a method does once its remote call has answered: a failure of the
\* call is raised on; a response is turned into the method's result.
Complete(then, self, resp) ==
    IF resp.fail THEN Raise(resp.err)
    ELSE CASE then = "decode_document" -> decode_document(resp.msg)
           [] then = "decode_chunk" -> decode_chunk(resp.msg)
           [] then = "self" -> Ok(self)
           [] then = "relevant_chunks" -> RelevantChunks(resp.msg.relevant_chunks)
           [] then = "decode_chunks" -> DecodeChunks(resp.msg.chunks)
           [] then = "to_dict" -> Ok(resp.msg)
           [] OTHER -> Ok(None)

---------------------------------------------------------------------------
(* Arguments *)

\* c, n times
RECURSIVE Repeat(_, _)
Repeat(c, n) == IF n = 0 THEN "" ELSE c \o Repeat(c, n - 1)

\* the names given to create_document and create_chunk
NameArgs ==
    {None} \cup {Str(n) : n \in {"ab", "a-1", "a", "", "ab-", "-ab", "Ab", "a_b", "a/b",
                                 "ab\n", "0",
                                 "a" \o Repeat("-", 37) \o "z", "a" \o Repeat("b", 38) \o "9",
                                 "a" \o Repeat("b", 39) \o "9"}}

\* update mappings for a Corpus or a Document
DisplayNameUpdates ==
    {<<>>,
     << <<"display_name", Str("x")>> >>,
     << <<"display_name", Str("x")>>, <<"bogus", Str("y")>> >>,
     << <<"bogus", Str("y")>>, <<"display_name", Str("x")>> >>,
     << <<"name", Str("corpora/c9")>> >>,
     << <<"display_name", Dict(<< <<"first", Str("x")>> >>)>> >>}

\* update mappings for a Chunk
ChunkUpdates ==
    {<<>>,
     << <<"data.string_value", Str("x")>> >>,
     << <<"data", Dict(<< <<"string_value", Str("hi")>> >>)>> >>,
     << <<"data.string_value", Str("x")>>, <<"data", Dict(<< <<"string_value", Str("hi")>> >>)>> >>,
     << <<"data", Dict(<< <<"string_value", Str("x")>>, <<"bogus", Str("y")>> >>)>> >>,
     << <<"data.string_value", Str("x")>>, <<"state", State("STATE_FAILED")>> >>,
     << <<"state", State("STATE_FAILED")>> >>,
     << <<"data", Str("x")>> >>}

\* the chunks given to batch_create_chunks
BatchCreateChunks ==
    {List(<<>>),
     List(<<Str("t1"), Str("t2")>>),
     List(<<Tuple(<<Str("ab"), Str("t1")>>)>>),
     List(<<Tuple(<<None, Str("t1"), List(<<>>)>>)>>),
     List(<<Tuple(<<Str("Bad_Name"), Str("t1")>>)>>),
     List(<<Tuple(<<Str("ab")>>)>>),
     List(<<Str("t1"), Tuple(<<Str("ab"), Str("t2"), List(<<>>), Str("extra")>>)>>),
     List(<<Tuple(<<Str("1"), Str("t1")>>), Str("t2")>>),
     List(<<Dict(<< <<"name", Str("ab")>>, <<"data", Str("t1")>> >>)>>),
     List(<<Dict(<< <<"name", Str("ab")>> >>)>>),
     List(<<PyInt(3)>>),
     Dict(<< <<"ab", Str("t1")>>, <<"a/b", Tuple(<<Str("t2"), List(<<>>)>>)>> >>),
     [t |-> "BatchCreateChunksRequest",
      request |-> [parent |-> Str("corpora/c1/documents/d1"), requests |-> <<>>]]}

\* the chunks given to batch_update_chunks
BatchUpdateChunks ==
    LET supplied == [chunk |-> [name |-> Str(StoredChunkName)],
                     update_mask |-> <<"data.string_value">>]
        updates == {Dict(<< <<"data.string_value", Str("x")>> >>),
                    Dict(<< <<"data", Dict(<< <<"string_value", Str("hi")>> >>)>> >>),
                    Dict(<< <<"state", State("STATE_FAILED")>> >>),
                    Dict(<< <<"data.string_value", Str("x")>>, <<"bogus", Str("y")>> >>),
                    Dict(<< <<"data", Str("x")>> >>),
                    Str("x")}
    IN  {List(<<>>), List(<<PyInt(3)>>),
         List(<<[t |-> "UpdateChunkRequest", request |-> supplied]>>),
         [t |-> "BatchUpdateChunksRequest",
          request |-> [parent |-> Str("corpora/c1/documents/d1"), requests |-> <<supplied>>]],
         Dict(<< <<"missing", Dict(<< <<"data.string_value", Str("x")>> >>)>> >>)}
        \cup {Dict(<< <<"c1", u>> >>) : u \in updates}
        \cup {List(<<Tuple(<<Str(StoredChunkName), u>>)>>) : u \in updates}

\* the chunks given to batch_delete_chunks: names or DeleteChunkRequests,
\* in a list or in a one-shot iterator
BatchDeleteChunks ==
    LET names == <<Str("corpora/c1/documents/d1/chunks/c1"), Str("corpora/c1/documents/d1/chunks/c2")>>
        requests == [i \in DOMAIN names |-> DeleteChunkRequest(names[i])]
    IN  {[t |-> k, items |-> s] : k \in {"list", "iterator"}, s \in {<<>>, names, requests}}

\* The arguments an operation is invoked with: a client or none, request
\* options or none, and the operation's own.
ArgsOf(op) ==
    LET Access == [client : {"none", "injected"}, request_options : {"none", "opts"}]
    IN  CASE op = "Corpus.create_document" ->
                {[client |-> x.client, request_options |-> x.request_options,
                  name |-> n, display_name |-> d] :
                    x \in Access, n \in NameArgs, d \in {None, Str("x")}}
          [] op \in {"Corpus.get_document", "Document.get_chunk", "Document.delete_chunk"} ->
                {[client |-> x.client, request_options |-> x.request_options, name |-> Str(n)] :
                    x \in Access,
                    n \in IF op = "Corpus.get_document" THEN {"d1", "corpora/c1/documents/d1"}
                          ELSE {"c1", StoredChunkName}}
          [] op = "Corpus.delete_document" ->
                {[client |-> x.client, request_options |-> x.request_options,
                  name |-> Str(n), force |-> f] :
                    x \in Access, n \in {"d1", "corpora/c1/documents/d1"}, f \in BOOLEAN}
          [] op \in {"Corpus.update", "Document.update", "Chunk.update"} ->
                {[client |-> x.client, request_options |-> x.request_options, updates |-> u] :
                    x \in Access,
                    u \in IF op = "Chunk.update" THEN ChunkUpdates ELSE DisplayNameUpdates}
          [] op \in {"Corpus.query", "Document.query"} ->
                {[client |-> x.client, request_options |-> x.request_options,
                  query |-> Str("q"), results_count |-> n] :
                    x \in Access,
                    n \in {None} \cup {PyInt(i) : i \in {-1, 0, 1, 99, 100, 101, 1000}}}
          [] op = "Document.create_chunk" ->
                {[client |-> x.client, request_options |-> x.request_options,
                  name |-> n, data |-> Str("text")] : x \in Access, n \in NameArgs}
          [] op \in {"Document.batch_create_chunks", "Document.batch_update_chunks",
                     "Document.batch_delete_chunks"} ->
                {[client |-> x.client, request_options |-> x.request_options, chunks |-> b] :
                    x \in Access,
                    b \in CASE op = "Document.batch_create_chunks" -> BatchCreateChunks
                            [] op = "Document.batch_update_chunks" -> BatchUpdateChunks
                            [] OTHER -> BatchDeleteChunks}
          [] OTHER ->
                {[client |-> "none", request_options |-> "none", page_size |-> None],
                 [client |-> "injected", request_options |-> "opts", page_size |-> PyInt(2)]}

---------------------------------------------------------------------------
(* Invocations *)

\* The invocation that ran step ends: with the error step raised, or with
\* what the method makes of the answer resp to its remote call.
Finish(op, mode, kind, a, before, step, resp) ==
    /\ ent' = [ent EXCEPT ![kind] = step.self]
    /\ task' = Nothing
    /\ last' = [op |-> op, mode |-> mode, kind |-> kind, args |-> a, before |-> before,
                after |-> step.self,
                resp |-> IF step.kind = "raised" THEN Reply(None) ELSE resp,
                calls |-> IF step.kind = "raised" THEN step.calls
                          ELSE Append(step.calls, step.call),
                result |-> IF step.kind = "raised" THEN Raise(step.err)
                           ELSE Complete(step.then, step.self, resp)]

\* A method is invoked with arguments a and runs as step says.  A blocking
\* method has the client's answer when its call returns; a suspending one
\* is left waiting at its await.
Invoke(op, mode, kind, a, step) ==
    /\ last = Nothing /\ task = Nothing
    /\ \A c \in Consumers : gens[c] = Nothing
    /\ UNCHANGED <<enumv, gens>>
    /\ IF step.kind = "await" /\ mode = "async"
       THEN /\ ent' = [ent EXCEPT ![kind] = step.self]
            /\ task' = [pc |-> "await", op |-> op, kind |-> kind, args |-> a,
                        before |-> ent[kind], step |-> step]
            /\ UNCHANGED last
       ELSE \E resp \in IF step.kind = "raised" THEN {Reply(None)}
                        ELSE Responses(step.call.rpc) :
                Finish(op, mode, kind, a, ent[kind], step, resp)

\* The remote call a suspended method awaits answers.
AsyncReply ==
    /\ task # Nothing
    /\ UNCHANGED <<enumv, gens>>
    /\ \E resp \in Responses(task.step.call.rpc) :
           Finish(task.op, "async", task.kind, task.args, task.before, task.step, resp)

\* Corpus.create_document or Corpus.create_document_async is invoked
CorpusCreateDocument ==
    \E a \in ArgsOf("Corpus.create_document"), mode \in {"sync", "async"} :
        Invoke("Corpus.create_document", mode, "Corpus", a,
               IF mode = "sync" THEN Corpus_create_document(ent.Corpus, a)
               ELSE Corpus_create_document_async(ent.Corpus, a))

\* Corpus.get_document or Corpus.get_document_async is invoked
CorpusGetDocument ==
    \E a \in ArgsOf("Corpus.get_document"), mode \in {"sync", "async"} :
        Invoke("Corpus.get_document", mode, "Corpus", a,
               IF mode = "sync" THEN Corpus_get_document(ent.Corpus, a)
               ELSE Corpus_get_document_async(ent.Corpus, a))

\* Corpus.update or Corpus.update_async is invoked
CorpusUpdate ==
    \E a \in ArgsOf("Corpus.update"), mode \in {"sync", "async"} :
        Invoke("Corpus.update", mode, "Corpus", a,
               IF mode = "sync" THEN Corpus_update(ent.Corpus, a)
               ELSE Corpus_update_async(ent.Corpus, a))

\* Corpus.query or Corpus.query_async is invoked
CorpusQuery ==
    \E a \in ArgsOf("Corpus.query"), mode \in {"sync", "async"} :
        Invoke("Corpus.query", mode, "Corpus", a,
               IF mode = "sync" THEN Corpus_query(ent.Corpus, a)
               ELSE Corpus_query_async(ent.Corpus, a))

\* Corpus.delete_document or Corpus.delete_document_async is invoked
CorpusDeleteDocument ==
    \E a \in ArgsOf("Corpus.delete_document"), mode \in {"sync", "async"} :
        Invoke("Corpus.delete_document", mode, "Corpus", a,
               IF mode = "sync" THEN Corpus_delete_document(ent.Corpus, a)
               ELSE Corpus_delete_document_async(ent.Corpus, a))

\* Document.create_chunk or Document.create_chunk_async is invoked
DocumentCreateChunk ==
    \E a \in ArgsOf("Document.create_chunk"), mode \in {"sync", "async"} :
        Invoke("Document.create_chunk", mode, "Document", a,
               IF mode = "sync" THEN Document_create_chunk(ent.Document, a)
               ELSE Document_create_chunk_async(ent.Document, a))

\* Document.batch_create_chunks or Document.batch_create_chunks_async is invoked
DocumentBatchCreateChunks ==
    \E a \in ArgsOf("Document.batch_create_chunks"), mode \in {"sync", "async"} :
        Invoke("Document.batch_create_chunks", mode, "Document", a,
               IF mode = "sync" THEN Document_batch_create_chunks(ent.Document, a)
               ELSE Document_batch_create_chunks_async(ent.Document, a))

\* Document.get_chunk or Document.get_chunk_async is invoked
DocumentGetChunk ==
    \E a \in ArgsOf("Document.get_chunk"), mode \in {"sync", "async"} :
        Invoke("Document.get_chunk", mode, "Document", a,
               IF mode = "sync" THEN Document_get_chunk(ent.Document, a)
               ELSE Document_get_chunk_async(ent.Document, a))

\* Document.query or Document.query_async is invoked
DocumentQuery ==
    \E a \in ArgsOf("Document.query"), mode \in {"sync", "async"} :
        Invoke("Document.query", mode, "Document", a,
               IF mode = "sync" THEN Document_query(ent.Document, a)
               ELSE Document_query_async(ent.Document, a))

\* Document.update or Document.update_async is invoked
DocumentUpdate ==
    \E a \in ArgsOf("Document.update"), mode \in {"sync", "async"} :
        Invoke("Document.update", mode, "Document", a,
               IF mode = "sync" THEN Document_update(ent.Document, a)
               ELSE Document_update_async(ent.Document, a))

\* Document.batch_update_chunks or Document.batch_update_chunks_async is invoked
DocumentBatchUpdateChunks ==
    \E a \in ArgsOf("Document.batch_update_chunks"), mode \in {"sync", "async"} :
        Invoke("Document.batch_update_chunks", mode, "Document", a,
               IF mode = "sync" THEN Document_batch_update_chunks(ent.Document, a)
               ELSE Document_batch_update_chunks_async(ent.Document, a))

\* Document.delete_chunk or Document.delete_chunk_async is invoked
DocumentDeleteChunk ==
    \E a \in ArgsOf("Document.delete_chunk"), mode \in {"sync", "async"} :
        Invoke("Document.delete_chunk", mode, "Document", a,
               IF mode = "sync" THEN Document_delete_chunk(ent.Document, a)
               ELSE Document_delete_chunk_async(ent.Document, a))

\* Document.batch_delete_chunks or Document.batch_delete_chunks_async is invoked
DocumentBatchDeleteChunks ==
    \E a \in ArgsOf("Document.batch_delete_chunks"), mode \in {"sync", "async"} :
        Invoke("Document.batch_delete_chunks", mode, "Document", a,
               IF mode = "sync" THEN Document_batch_delete_chunks(ent.Document, a)
               ELSE Document_batch_delete_chunks_async(ent.Document, a))

\* Chunk.update or Chunk.update_async is invoked
ChunkUpdate ==
    \E a \in ArgsOf("Chunk.update"), mode \in {"sync", "async"} :
        Invoke("Chunk.update", mode, "Chunk", a,
               IF mode = "sync" THEN Chunk_update(ent.Chunk, a)
               ELSE Chunk_update_async(ent.Chunk, a))

---------------------------------------------------------------------------
(* Listing.  Calling list_documents or list_chunks creates a generator and *)
(* runs none of its body; the body runs when the consumer asks for an      *)
(* item, up to the next yield.                                             *)

\* the body of generator g up to its remote call
GenBody(g) ==
    CASE g.op = "Corpus.list_documents" /\ g.mode = "sync" ->
            Corpus_list_documents(ent.Corpus, g.args)
      [] g.op = "Corpus.list_documents" /\ g.mode = "async" ->
            Corpus_list_documents_async(ent.Corpus, g.args)
      [] g.op = "Document.list_chunks" /\ g.mode = "sync" ->
            Document_list_chunks(ent.Document, g.args)
      [] OTHER -> Document_list_chunks_async(ent.Document, g.args)

\* yield decode_document(doc), yield decode_chunk(chunk)
YieldOf(then, item) ==
    IF then = "yield decode_document" THEN decode_document(item) ELSE decode_chunk(item)

\* every item the transport still holds is decoded at once
GenDeliverAll(g, then) ==
    LET rest == [i \in 1 .. Len(g.items) - g.taken |-> YieldOf(then, g.items[g.taken + i])]
    IN  IF \E i \in DOMAIN rest : ~rest[i].ok
        THEN [g EXCEPT !.pc = "failed", !.taken = Len(g.items), !.err = "decode"]
        ELSE [g EXCEPT !.pc = IF rest = <<>> THEN "done" ELSE "suspended",
                       !.taken = Len(g.items),
                       !.yielded = @ \o [i \in DOMAIN rest |-> rest[i].val]]

\* One round of the for loop: the next transport item is taken, decoded and
\* yielded; with no item left the generator returns.
GenDeliver(g, then) ==
    LET Yielded(out) ==
            IF out.ok
            THEN [g EXCEPT !.pc = "suspended", !.taken = @ + 1,
                           !.yielded = Append(@, out.val)]
            ELSE [g EXCEPT !.pc = "failed", !.taken = @ + 1, !.err = out.err]
    IN  IF g.taken = Len(g.items) THEN [g EXCEPT !.pc = "done"]
        ELSE Yielded(YieldOf(then, g.items[g.taken + 1]))

\* The list call has answered: a failure is raised out of the generator, a
\* response is what the for loop iterates.
GenAnswer(g, then, resp) ==
    IF resp.fail THEN [g EXCEPT !.pc = "failed", !.err = resp.err]
    ELSE GenDeliver([g EXCEPT !.items = resp.msg.items], then)

\* A call of a list method: consumer c gets a generator that has run
\* nothing yet.
Create(c, op, mode, a) ==
    /\ last = Nothing /\ task = Nothing
    /\ gens[c] = Nothing
    /\ gens' = [gens EXCEPT ![c] =
                    [pc |-> "created", op |-> op, mode |-> mode, args |-> a, asked |-> 0,
                     calls |-> <<>>, items |-> <<>>, taken |-> 0, yielded |-> <<>>,
                     err |-> ""]]
    /\ UNCHANGED <<enumv, ent, task, last>>

\* Corpus.list_documents or Corpus.list_documents_async is called
CorpusListDocuments ==
    \E c \in Consumers, a \in ArgsOf("Corpus.list_documents"), mode \in {"sync", "async"} :
        Create(c, "Corpus.list_documents", mode, a)

\* Document.list_chunks or Document.list_chunks_async is called
DocumentListChunks ==
    \E c \in Consumers, a \in ArgsOf("Document.list_chunks"), mode \in {"sync", "async"} :
        Create(c, "Document.list_chunks", mode, a)

\* next(generator): a consumer asks a blocking generator for an item
GenNext ==
    \E c \in Consumers :
        LET g == gens[c]
            asked == [g EXCEPT !.asked = @ + 1]
            step == GenBody(g)
        IN  /\ g.pc \in {"created", "suspended"} /\ g.mode = "sync"
            /\ UNCHANGED <<enumv, ent, task, last>>
            /\ IF g.pc = "created"
               THEN \E resp \in Responses(step.call.rpc) :
                        gens' = [gens EXCEPT ![c] =
                                    GenAnswer([asked EXCEPT !.calls = <<step.call>>],
                                              step.then, resp)]
               ELSE gens' = [gens EXCEPT ![c] = GenDeliver(asked, step.then)]

\* anext(generator): a consumer asks a suspending generator for an item;
\* the first time, the generator sends its request and awaits the answer
GenNextAsync ==
    \E c \in Consumers :
        LET g == gens[c]
            asked == [g EXCEPT !.asked = @ + 1]
            step == GenBody(g)
        IN  /\ g.pc \in {"created", "suspended"} /\ g.mode = "async"
            /\ UNCHANGED <<enumv, ent, task, last>>
            /\ IF g.pc = "created"
               THEN gens' = [gens EXCEPT ![c] =
                                [asked EXCEPT !.pc = "awaiting", !.calls = <<step.call>>]]
               ELSE gens' = [gens EXCEPT ![c] = GenDeliver(asked, step.then)]

\* the list call a suspending generator awaits answers
GenReply ==
    \E c \in Consumers :
        LET g == gens[c]
            step == GenBody(g)
        IN  /\ g.pc = "awaiting"
            /\ UNCHANGED <<enumv, ent, task, last>>
            /\ \E resp \in Responses(step.call.rpc) :
                   gens' = [gens EXCEPT ![c] = GenAnswer(g, step.then, resp)]

---------------------------------------------------------------------------
(* The specification of the facades *)

Init ==
    /\ enumv = Nothing
    /\ ent = Held
    /\ task = Nothing
    /\ last = Nothing
    /\ gens = [c \in Consumers |-> Nothing]

Next ==
    \/ CorpusCreateDocument
    \/ CorpusGetDocument
    \/ CorpusUpdate
    \/ CorpusQuery
    \/ CorpusDeleteDocument
    \/ DocumentCreateChunk
    \/ DocumentBatchCreateChunks
    \/ DocumentGetChunk
    \/ DocumentQuery
    \/ DocumentUpdate
    \/ DocumentBatchUpdateChunks
    \/ DocumentDeleteChunk
    \/ DocumentBatchDeleteChunks
    \/ ChunkUpdate
    \/ AsyncReply
    \/ CorpusListDocuments
    \/ DocumentListChunks
    \/ GenNext
    \/ GenNextAsync
    \/ GenReply

Spec == Init /\ [][Next]_vars

---------------------------------------------------------------------------
(* The enum coercers as a state machine: Init draws a call (the function   *)
(* and its argument), the function's action applies it.                    *)

\* The strings tried: every alias one of the three tables lists, and some
\* that no table lists.
AliasTexts ==
    {"operator_unspecified", "unspecified", "operator_less", "less", "<",
     "operator_less_equal", "less_equal", "<=", "operator_equal", "equal", "==",
     "operator_greater_equal", "greater_equal", "operator_not_equal", "not_equal",
     "!=", "operator_includes", "includes", "operator_excludes", "excludes",
     "not in", "state_unspecifed", "pending_processing", "pending", "state_active",
     "active", "state_failed", "failed", "creating", "state_unspecified"}

\* A text with its first letter in upper case.
Capitalized(s) == IF s = "" THEN "" ELSE UpperText(CharAt(s, 1)) \o SubSeq(s, 2, Len(s))

\* Each text in lower case, in upper case and capitalized.
StrInputs ==
    {Str(v) : v \in UNION {{s, UpperText(s), Capitalized(s)} :
                               s \in AliasTexts \cup {"bogus", "", " active", "greater",
                                                  "state_pending_processing"}}}

IntInputs == {PyInt(n) : n \in -1 .. MaxEnumInt}

FamilyOf(fn) ==
    CASE fn = "to_operator" -> {Operator(OperatorNames[i]) : i \in DOMAIN OperatorNames}
      [] fn = "to_state" ->
            {State(n) : n \in {"STATE_UNSPECIFIED", "STATE_PENDING_PROCESSING",
                               "STATE_ACTIVE", "STATE_FAILED"}}
      [] OTHER ->
            {TunedModelState(n) : n \in {"STATE_UNSPECIFIED", "CREATING", "ACTIVE", "FAILED"}}

EnumInputs(fn) ==
    {None} \cup IntInputs \cup StrInputs \cup FamilyOf(fn)
        \cup (IF fn = "decode_tuned_model" THEN {Absent} ELSE {})

EnumInit ==
    \E fn \in {"to_operator", "to_state", "to_tuned_model_state", "decode_tuned_model"},
       rev \in ProtoRevs :
        \E x \in EnumInputs(fn) :
            /\ fn # "to_operator" => rev = "dense"
            /\ enumv = [pc |-> "call", fn |-> fn, rev |-> rev, x |-> x, out |-> None,
                        again |-> None]
            /\ ent = Held
            /\ task = Nothing
            /\ last = Nothing
            /\ gens = [c \in Consumers |-> Nothing]

EnumReturn(out) ==
    /\ enumv' = [enumv EXCEPT !.pc = "done", !.out = out]
    /\ UNCHANGED <<ent, task, last, gens>>

ToOperator ==
    /\ enumv.pc = "call" /\ enumv.fn = "to_operator"
    /\ EnumReturn(to_operator(enumv.rev, enumv.x))

ToState ==
    /\ enumv.pc = "call" /\ enumv.fn = "to_state"
    /\ EnumReturn(to_state(enumv.x))

ToTunedModelState ==
    /\ enumv.pc = "call" /\ enumv.fn = "to_tuned_model_state"
    /\ EnumReturn(to_tuned_model_state(enumv.x))

DecodeTunedModelState ==
    /\ enumv.pc = "call" /\ enumv.fn = "decode_tuned_model"
    /\ EnumReturn(decode_tuned_model_state(enumv.x))

\* The value a coercer returned is given to the same coercer again.
CoerceAgain ==
    /\ enumv.pc = "done" /\ enumv.out.ok
    /\ enumv.fn \in {"to_operator", "to_state", "to_tuned_model_state"}
    /\ enumv' = [enumv EXCEPT
                    !.pc = "again",
                    !.again = CASE enumv.fn = "to_operator" ->
                                        to_operator(enumv.rev, enumv.out.val)
                                [] enumv.fn = "to_state" -> to_state(enumv.out.val)
                                [] OTHER -> to_tuned_model_state(enumv.out.val)]
    /\ UNCHANGED <<ent, task, last, gens>>

EnumNext ==
    \/ ToOperator
    \/ ToState
    \/ ToTunedModelState
    \/ DecodeTunedModelState
    \/ CoerceAgain

SpecEnum == EnumInit /\ [][EnumNext]_vars

---------------------------------------------------------------------------
(* encode_tuning_data.  A Dataset is the sequence of its TuningExamples;   *)
(* reading a file or a URL and parsing what was read belong to urllib,     *)
(* pathlib, json and csv, and the encoder's result for a str is the source *)
(* it would read.                                                          *)

TuningExample(text_input, output) ==
    [t |-> "TuningExample", text_input |-> text_input, output |-> output]

Dataset(examples) == [t |-> "Dataset", examples |-> examples]

\* str(v)
PyStr(v) ==
    CASE v.t = "str" -> v
      [] v.t = "int" -> Str(IF v.i < 0 THEN "-" \o NatText(-v.i) ELSE NatText(v.i))
      [] OTHER -> Str("None")

\* The items iterating over v gives: those of a list or a tuple, the
\* characters of a str; TypeError for a value that is not iterable.
Iterate(v) ==
    IF v.t \in {"list", "tuple"} THEN Ok(v.items)
    ELSE IF IsStr(v) THEN Ok([i \in 1 .. Len(v.s) |-> Str(CharAt(v.s, i))])
    ELSE Raise("TypeError")

\* for i, o in zip(inputs, outputs):
\*     new_data.append(TuningExample({"text_input": str(i), "output": str(o)}))
\* First the loop written over the positions of inputs, an output that is
\* missing taken as "", then the loop of the source.
RECURSIVE ZipExamples(_, _)
ZipExamples_by_inputs(inputs, outputs) ==
    [i \in 1 .. Len(inputs) |->
        TuningExample(PyStr(inputs[i]),
                      IF i <= Len(outputs) THEN PyStr(outputs[i]) ELSE Str(""))]

ZipExamples(inputs, outputs) ==
    IF inputs = <<>> \/ outputs = <<>> THEN <<>>
    ELSE <<TuningExample(PyStr(inputs[1]), PyStr(outputs[1]))>>
             \o ZipExamples(Tail(inputs), Tail(outputs))

\* _convert_dict(data, input_key, output_key), data a mapping.  The KeyError
\* names the key and the keys the data has.
_convert_dict(data, input_key, output_key) ==
    LET Zipped(inputs, outputs) ==
            IF ~inputs.ok THEN inputs
            ELSE IF ~outputs.ok THEN outputs
            ELSE Ok(Dataset(ZipExamples(inputs.val, outputs.val)))
    IN  IF input_key \notin DOMAIN data \/ output_key \notin DOMAIN data
        THEN Raise("KeyError")
        ELSE Zipped(Iterate(data[input_key]), Iterate(data[output_key]))

\* encode_tuning_example(example, input_key, output_key): a TuningExample is
\* kept, a tuple or list is unpacked into two, anything else is
\* subscripted with the keys; the fields of a TuningExample take a str only.
encode_tuning_example(example, input_key, output_key) ==
    LET Example(a, b) ==
            IF IsStr(a) /\ IsStr(b) THEN Ok(TuningExample(a, b)) ELSE Raise("TypeError")
    IN  IF IsMapping(example)
        THEN IF input_key \in DOMAIN example /\ output_key \in DOMAIN example
             THEN Example(example[input_key], example[output_key])
             ELSE Raise("KeyError")
        ELSE IF example.t = "TuningExample" THEN Ok(example)
        ELSE IF example.t \in {"tuple", "list"}
        THEN IF Len(example.items) = 2 THEN Example(example.items[1], example.items[2])
             ELSE Raise("ValueError")
        ELSE Raise("TypeError")

\* for example in data: new_data.append(encode_tuning_example(...))
RECURSIVE EncodeExamples(_, _, _)
EncodeExamples(examples, input_key, output_key) ==
    LET Appended(first, rest) ==
            IF ~first.ok THEN first
            ELSE IF ~rest.ok THEN rest
            ELSE Ok(<<first.val>> \o rest.val)
    IN  IF examples = <<>> THEN Ok(<<>>)
        ELSE Appended(encode_tuning_example(examples[1], input_key, output_key),
                      EncodeExamples(Tail(examples), input_key, output_key))

\* _convert_iterable(data, input_key, output_key)
_convert_iterable(data, input_key, output_key) ==
    LET Collected(examples) == IF examples.ok THEN Ok(Dataset(examples.val)) ELSE examples
        Looped(items) ==
            IF items.ok THEN Collected(EncodeExamples(items.val, input_key, output_key))
            ELSE items
    IN  Looped(Iterate(data))

sheet_base == "https://docs.google.com/spreadsheets"

\* s.startswith(prefix)
StartsWith(s, prefix) == Len(s) >= Len(prefix) /\ SubSeq(s, 1, Len(prefix)) = prefix

\* The length of the run of characters other than "/" that starts at i.
RECURSIVE SegmentRun(_, _)
SegmentRun(s, i) ==
    IF i <= Len(s) /\ CharAt(s, i) # "/" THEN 1 + SegmentRun(s, i + 1) ELSE 0

\* re.search(r"gid=(\d+)", url) from position i on: group(1), the digits
\* after the first "gid=" that a digit follows; "" when there is no match.
RECURSIVE TabSearch(_, _)
TabSearch(url, i) ==
    IF i + 4 > Len(url) THEN ""
    ELSE IF SubSeq(url, i, i + 3) = "gid=" /\ DigitRun(url, i + 4) > 0
    THEN SubSeq(url, i + 4, i + 3 + DigitRun(url, i + 4))
    ELSE TabSearch(url, i + 1)

\* _normalize_url(url).  First the function written without the tab
\* parameter, then the one of the source; the text of its ValueError is a
\* plain string, not an f-string.
_normalize_url_without_tab(url) ==
    LET b == Len(sheet_base)
        Exported(n) ==
            IF Len(url) > b + 3 /\ SubSeq(url, b + 1, b + 3) = "/d/" /\ n > 0
            THEN Ok(Str(SubSeq(url, 1, b + 3 + n) \o "/export?format=csv"))
            ELSE RaiseText("ValueError", "Incomplete Google Sheets URL: {data}")
    IN  IF StartsWith(url, sheet_base) THEN Exported(SegmentRun(url, b + 4))
        ELSE Ok(Str(url))

\* _normalize_url with the export path put after the whole URL, not after
\* the part of it that names the document
_normalize_url_appending(url) ==
    LET b == Len(sheet_base)
        Joined(tab) ==
            Ok(Str(url \o "/export?format=csv" \o (IF tab = "" THEN "" ELSE "&gid=" \o tab)))
        Exported(n) ==
            IF Len(url) > b + 3 /\ SubSeq(url, b + 1, b + 3) = "/d/" /\ n > 0
            THEN Joined(TabSearch(url, 1))
            ELSE RaiseText("ValueError", "Incomplete Google Sheets URL: {data}")
    IN  IF StartsWith(url, sheet_base) THEN Exported(SegmentRun(url, b + 4))
        ELSE Ok(Str(url))

_normalize_url(url) ==
    LET b == Len(sheet_base)
        Joined(id_match, tab) ==
            Ok(Str(id_match \o "/export?format=csv"
                      \o (IF tab = "" THEN "" ELSE "&gid=" \o tab)))
        Exported(n) ==
            IF Len(url) > b + 3 /\ SubSeq(url, b + 1, b + 3) = "/d/" /\ n > 0
            THEN Joined(SubSeq(url, 1, b + 3 + n), TabSearch(url, 1))
            ELSE RaiseText("ValueError", "Incomplete Google Sheets URL: {data}")
    IN  IF StartsWith(url, sheet_base) THEN Exported(SegmentRun(url, b + 4))
        ELSE Ok(Str(url))

WordChars == LowerLetters \o UpperLetters \o Digits \o "_"

Whitespace == " \t\n\r\f"

\* The length of the run of word characters that starts at i.
RECURSIVE WordRun(_, _)
WordRun(s, i) ==
    IF i <= Len(s) /\ InClass(CharAt(s, i), WordChars) THEN 1 + WordRun(s, i + 1) ELSE 0

\* re.match(r"^\w+://\S+$", data) is not None; $ also matches before a
\* newline that ends the string.
MatchesUrl(data) ==
    LET Rest(n, end) ==
            /\ n > 0
            /\ end >= n + 4
            /\ SubSeq(data, n + 1, n + 3) = "://"
            /\ \A i \in n + 4 .. end : ~InClass(CharAt(data, i), Whitespace)
    IN  \/ Rest(WordRun(data, 1), Len(data))
        \/ /\ data # "" /\ CharAt(data, Len(data)) = "\n"
           /\ Rest(WordRun(data, 1), Len(data) - 1)

\* What encode_tuning_data would read for a str it has turned into source.
Read(source) == [t |-> "read", source |-> source]

Path(text) == [t |-> "Path", s |-> text]

\* encode_tuning_data(data, input_key, output_key)
encode_tuning_data(data, input_key, output_key) ==
    LET Opened(url) == IF url.ok THEN Ok(Read(url.val)) ELSE url
    IN  IF IsMapping(data) THEN _convert_dict(data, input_key, output_key)
        ELSE IF data.t = "Dataset" THEN Ok(data)
        ELSE IF IsStr(data)
        THEN IF MatchesUrl(data.s) THEN Opened(_normalize_url(data.s))
             ELSE Ok(Read(Path(data.s)))
        ELSE _convert_iterable(data, input_key, output_key)

---------------------------------------------------------------------------
(* The decoders and the encoder as a state machine: Init draws a call (the *)
(* function and the input it is given), the function's action applies it   *)
(* and keeps the result next to the caller's record as the call leaves it. *)

TimeBase == "2024-01-01T00:00:00"

\* Wire timestamps without a fraction and with fractions of one to nine
\* digits, and strings that are no timestamps.
TimeTexts ==
    {TimeBase \o tail : tail \in {"Z", ".5Z", ".25Z", ".123456Z", ".1234567Z",
                                  ".123456789Z", ".0000004Z", ".1234565Z", ".000001Z",
                                  ".9999999Z", ".999999999Z", ".999999Z", ".99999949Z",
                                  ".Z", "", ".5", "Z ", ".5Z0"}}
        \cup {"yesterday", "2024-01-01 00:00:00Z"}

\* d with d[key] = v, or d itself for a key that is not given
Opt(d, key, v) == IF v = Absent THEN d ELSE With(d, key, v)

RawSnapshot(time) == [step |-> PyInt(1), compute_time |-> Str(time)]

RawTuningTasks ==
    {[start_time |-> Str(TimeBase \o ".5Z")],
     [start_time |-> Str(TimeBase \o "Z"), complete_time |-> Str(TimeBase \o ".75Z"),
      hyperparameters |-> [epoch_count |-> PyInt(5)],
      snapshots |-> List(<<RawSnapshot(TimeBase \o ".1234567Z"),
                           RawSnapshot(TimeBase \o "Z")>>)],
     [hyperparameters |-> [epochs |-> PyInt(5)]],
     [start_time |-> Str(TimeBase \o "Z"),
      snapshots |-> List(<<RawSnapshot(TimeBase \o "Z"), RawSnapshot("yesterday")>>)]}

RawTunedModels ==
    {Opt(Opt(Opt(Opt(Opt(Opt([name |-> Str("tunedModels/t1")],
        "state", state), "base_model", base_model), "tuned_model_source", source),
        "create_time", create_time), "update_time", update_time), "tuning_task", tuning_task) :
        state \in {Absent, PyInt(2), Str("active"), Str("bogus")},
        base_model \in {Absent, None, Str("models/b")},
        source \in {Absent, [tuned_model |-> Str("tunedModels/t")],
                    [base_model |-> Str("models/sb"), tuned_model |-> Str("tunedModels/t")]},
        create_time \in {Absent, Str(TimeBase \o "Z"), Str(TimeBase \o ".5Z"), Str("yesterday")},
        update_time \in {Absent, Str(TimeBase \o ".25Z")},
        tuning_task \in {Absent} \cup RawTuningTasks}

\* The longest sequence given under a key of a mapping
MaxExamples == 3

ExampleValues == {Str("a"), Str("b"), PyInt(7)}

ExampleLists == {List(items) : items \in UNION {[1 .. n -> ExampleValues] : n \in 0 .. MaxExamples}}

\* Mappings with a sequence under each key, and mappings without a key,
\* with a str, a tuple or a number under a key.
TuningMappings ==
    {[text_input |-> inputs, output |-> outputs] : inputs, outputs \in ExampleLists}
        \cup {[q |-> List(<<Str("a"), Str("b")>>), a |-> List(<<Str("x")>>)],
              [text_input |-> List(<<Str("a")>>)],
              [text_input |-> Str("ab"), output |-> Tuple(<<Str("x"), Str("y"), Str("z")>>)],
              [text_input |-> PyInt(7), output |-> List(<<Str("x")>>)],
              [text_input |-> List(<<None>>), output |-> List(<<Str("x")>>)]}

\* Examples in each form encode_tuning_example takes, and some it refuses.
ExampleForms ==
    {TuningExample(Str("a"), Str("x")), Tuple(<<Str("a"), Str("x")>>),
     List(<<Str("b"), Str("y")>>), [text_input |-> Str("c"), output |-> Str("z")],
     Tuple(<<Str("a"), Str("x"), Str("y")>>), Tuple(<<Str("a"), PyInt(7)>>),
     [text_input |-> Str("c")], Str("ax")}

TuningIterables ==
    {List(items) : items \in UNION {[1 .. n -> ExampleForms] : n \in 0 .. 2}}
        \cup {PyInt(7), Dataset(<<TuningExample(Str("a"), Str("x"))>>)}

SheetIds == {"ID", "1aB-c_9"}

\* What follows the document id in a spreadsheet URL, with the tab number
\* it names ("" for none).
SheetTails ==
    {<<"", "">>, <<"/", "">>, <<"/edit", "">>, <<"/edit#gid=42", "42">>,
     <<"/edit?usp=sharing", "">>, <<"/edit#gid=", "">>, <<"/edit#gid=x1", "">>,
     <<"/edit?gid=0#gid=7", "0">>, <<"/export?format=csv&gid=5", "5">>,
     <<"/export?format=csv", "">>, <<"/edit#gid=007&range=A1", "007">>}

\* Spreadsheet URLs with a document id, spreadsheet URLs without one, other
\* URLs, and strings that are no URLs.
UrlTexts ==
    {sheet_base \o "/d/" \o id \o tail[1] : id \in SheetIds, tail \in SheetTails}
        \cup {sheet_base \o rest : rest \in {"", "/", "/d", "/d/", "/d//edit", "/edit#gid=4",
                                             "/u/0/d/ID/edit", "/d/ID?usp=sharing#gid=3",
                                             "/d/gid=5x/edit#gid=7", "/d/a?gid=/edit#gid=7",
                                             "/d/ID\n/edit", "/d/IDgid="}}
        \cup {"https://example.com/data.csv", "https://example.com/a.json?gid=3",
              "http://docs.google.com/spreadsheets/d/ID/edit#gid=42",
              "gs://bucket/spreadsheets/d/ID", "data/train.csv", "train.json",
              "https://example.com/a b.csv", "https://example.com/a.csv\n", "://x", ""}

\* Names of one character up to 66: a first character, a run of one middle
\* character, a last character or none, and a newline or none at the end.
NameTexts ==
    {first \o Repeat(mid, k) \o closing \o tail :
        first \in {"a", "9", "-", "A"}, mid \in {"b", "-", "0", "_"},
        k \in {0, 1, 36, 37, 38, 39, 60, 61, 62, 63}, closing \in {"", "z", "5", "-"},
        tail \in {"", "\n"}}
        \cup {"", "\n", "a b", "a.b", "a/b"}

CodecCalls ==
    {[fn |-> "idecode_time", x |-> Opt([name |-> Str("n")], "create_time", time),
      is_proto |-> FALSE] : time \in {Absent, None} \cup {Str(text) : text \in TimeTexts}}
      \cup {[fn |-> "decode_tuned_model", x |-> raw, is_proto |-> is_proto] :
                raw \in RawTunedModels, is_proto \in BOOLEAN}
      \cup {[fn |-> "decode_chunk", x |-> chunk, is_proto |-> TRUE] : chunk \in ChunkMessages}
      \cup {[fn |-> "decode_document", x |-> document, is_proto |-> TRUE] :
                document \in DocumentMessages}
      \cup {[fn |-> "encode_tuning_data",
             x |-> [data |-> data, input_key |-> keys[1], output_key |-> keys[2]],
             is_proto |-> FALSE] :
                data \in TuningMappings \cup TuningIterables \cup {Str(u) : u \in UrlTexts},
                keys \in {<<"text_input", "output">>, <<"q", "a">>}}
      \cup {[fn |-> "_normalize_url", x |-> Str(url), is_proto |-> FALSE] : url \in UrlTexts}
      \cup {[fn |-> fn, x |-> Str(name), is_proto |-> FALSE] :
                fn \in {"valid_tuned_model_name", "valid_name"}, name \in NameTexts}

CodecInit ==
    \E call \in CodecCalls :
        /\ enumv = [pc |-> "call", fn |-> call.fn, x |-> call.x, is_proto |-> call.is_proto,
                    out |-> None, raw |-> call.x, again |-> None]
        /\ ent = Held
        /\ task = Nothing
        /\ last = Nothing
        /\ gens = [c \in Consumers |-> Nothing]

\* The call returns: its result, and the caller's record afterwards.
CodecReturn(out, raw) ==
    /\ enumv' = [enumv EXCEPT !.pc = "done", !.out = out, !.raw = raw]
    /\ UNCHANGED <<ent, task, last, gens>>

\* idecode_time(parent, "create_time") works on the caller's dict.
IdecodeTime ==
    LET Returned(out) ==
            CodecReturn(out, IF out.ok THEN out.val ELSE Without(enumv.x, "create_time"))
    IN  /\ enumv.pc = "call" /\ enumv.fn = "idecode_time"
        /\ Returned(idecode_time(enumv.x, "create_time"))

DecodeTunedModel ==
    LET Returned(r) == CodecReturn(r.out, r.raw)
    IN  /\ enumv.pc = "call" /\ enumv.fn = "decode_tuned_model"
        /\ Returned(decode_tuned_model(enumv.x, enumv.is_proto))

\* decode_chunk and decode_document work on the dict to_dict made of the
\* message they are given.
DecodeChunk ==
    /\ enumv.pc = "call" /\ enumv.fn = "decode_chunk"
    /\ CodecReturn(decode_chunk(enumv.x), enumv.x)

DecodeDocument ==
    /\ enumv.pc = "call" /\ enumv.fn = "decode_document"
    /\ CodecReturn(decode_document(enumv.x), enumv.x)

EncodeTuningData ==
    /\ enumv.pc = "call" /\ enumv.fn = "encode_tuning_data"
    /\ CodecReturn(encode_tuning_data(enumv.x.data, enumv.x.input_key, enumv.x.output_key),
                   enumv.x)

NormalizeUrl ==
    /\ enumv.pc = "call" /\ enumv.fn = "_normalize_url"
    /\ CodecReturn(_normalize_url(enumv.x.s), enumv.x)

\* The validators return a truth value.
ValidTunedModelName ==
    /\ enumv.pc = "call" /\ enumv.fn = "valid_tuned_model_name"
    /\ CodecReturn(Ok(valid_tuned_model_name(enumv.x.s)), enumv.x)

ValidName ==
    /\ enumv.pc = "call" /\ enumv.fn = "valid_name"
    /\ CodecReturn(Ok(valid_name(enumv.x.s)), enumv.x)

\* The record of a TunedModel's fields, every one of its canonical type: the
\* state a TunedModelState, the times datetimes, the task the record of
\* its fields with the Hyperparameters in it.
Canonical(model) ==
    IF model.tuning_task = None THEN Without(model, "t")
    ELSE With(Without(model, "t"), "tuning_task", Without(model.tuning_task, "t"))

\* The TunedModel a decode produced is given to decode_tuned_model again as
\* the record of its fields.
DecodeAgain ==
    /\ enumv.pc = "done" /\ enumv.fn = "decode_tuned_model" /\ enumv.out.ok
    /\ enumv' = [enumv EXCEPT
                    !.pc = "again",
                    !.again = decode_tuned_model(Canonical(enumv.out.val), FALSE).out]
    /\ UNCHANGED <<ent, task, last, gens>>

\* The URL _normalize_url returned is given to _normalize_url again.
NormalizeUrlAgain ==
    /\ enumv.pc = "done" /\ enumv.fn = "_normalize_url" /\ enumv.out.ok
    /\ enumv' = [enumv EXCEPT !.pc = "again", !.again = _normalize_url(enumv.out.val.s)]
    /\ UNCHANGED <<ent, task, last, gens>>

CodecNext ==
    \/ IdecodeTime
    \/ DecodeTunedModel
    \/ DecodeChunk
    \/ DecodeDocument
    \/ DecodeAgain
    \/ EncodeTuningData
    \/ NormalizeUrl
    \/ NormalizeUrlAgain
    \/ ValidTunedModelName
    \/ ValidName

SpecCodec == CodecInit /\ [][CodecNext]_vars

---------------------------------------------------------------------------
(* update_async run by several asyncio tasks on one entity.  A coroutine   *)
(* is followed statement by statement; the event loop lets a task run      *)
(* until it suspends and only then resumes another.                        *)

\* how many tasks update the entity
TaskCount == 2

TaskIds == 1 .. TaskCount

\* The value task i writes.
TaskValue(i) == Str("v" \o NatText(i))

\* The update mappings task i may pass for an entity of this kind.
TaskUpdates(kind, i) ==
    IF kind = "Chunk"
    THEN {<< <<"data.string_value", TaskValue(i)>> >>,
          << <<"data", Dict(<< <<"string_value", TaskValue(i)>> >>)>> >>,
          << <<"state", State("STATE_FAILED")>> >>}
    ELSE {<< <<"display_name", TaskValue(i)>> >>,
          << <<"display_name", TaskValue(i)>>, <<"bogus", Str("y")>> >>}

\* The statements of update_async after which the coroutine gives up the
\* event loop, were there an await after the loop of _apply_update as well.
SuspensionPoints_after_mutation == {"apply", "call"}

\* The statements of update_async after which the coroutine gives up the
\* event loop: its one await, `await client.update_...(request, **request_options)`.
SuspensionPoints == {"call"}

\* A coroutine of update_async that has not started.
NewCoroutine == [pc |-> "new", updates |-> <<>>, k |-> 0, mask |-> <<>>, request |-> None]

\* Task i may take its next step: it holds the event loop, or nobody does
\* and it is not waiting for its remote call.
CanRun(i) ==
    \/ task.running = i
    \/ task.running = 0 /\ task.co[i].pc \notin {"await", "done", "raised"}

\* Task i has executed a statement and its coroutine is co.  It keeps the
\* event loop unless the statement it has left is a suspension point or
\* the coroutine has ended.
Step(i, co) ==
    task' = [task EXCEPT
                !.co[i] = co,
                !.running = IF \/ (task.co[i].pc \in SuspensionPoints /\ co.pc # task.co[i].pc)
                               \/ co.pc \in {"done", "raised"}
                            THEN 0 ELSE i]

TasksInit ==
    /\ enumv = Nothing
    /\ gens = [c \in Consumers |-> Nothing]
    /\ ent = Held
    /\ \E kind \in {"Corpus", "Document", "Chunk"} :
           task = [kind |-> kind, running |-> 0, co |-> [i \in TaskIds |-> NewCoroutine]]
    /\ last = [sent |-> <<>>, order |-> <<>>, replied |-> <<>>]

\* update_async is called in task i: the defaults, updates = flatten_update_paths(updates)
UpdateAsyncStart ==
    \E i \in TaskIds :
        /\ CanRun(i) /\ task.co[i].pc = "new"
        /\ \E u \in TaskUpdates(task.kind, i) :
               Step(i, [task.co[i] EXCEPT !.pc = "validate", !.updates = flatten_update_paths(u)])
        /\ UNCHANGED <<enumv, ent, last, gens>>

\* for item in updates: if item != <the one path allowed>: raise ValueError
UpdateAsyncValidate ==
    \E i \in TaskIds :
        /\ CanRun(i) /\ task.co[i].pc = "validate"
        /\ LET allowed == IF task.kind = "Chunk" THEN "data.string_value" ELSE "display_name"
               updates == task.co[i].updates
           IN  Step(i, [task.co[i] EXCEPT
                           !.pc = IF \E n \in DOMAIN updates : updates[n][1] # allowed
                                  THEN "raised" ELSE "mask"])
        /\ UNCHANGED <<enumv, ent, last, gens>>

\* field_mask = FieldMask(); for path in updates.keys(): field_mask.paths.append(path)
UpdateAsyncMask ==
    \E i \in TaskIds :
        /\ CanRun(i) /\ task.co[i].pc = "mask"
        /\ Step(i, [task.co[i] EXCEPT
                       !.pc = IF task.co[i].updates = <<>> THEN "request" ELSE "apply",
                       !.mask = FieldMask(task.co[i].updates), !.k = 1])
        /\ UNCHANGED <<enumv, ent, last, gens>>

\* One round of `for path, value in updates.items(): self._apply_update(path, value)`
UpdateAsyncApply ==
    \E i \in TaskIds :
        /\ CanRun(i) /\ task.co[i].pc = "apply"
        /\ LET Applied(co, applied) ==
                   IF ~applied.ok
                   THEN Step(i, [co EXCEPT !.pc = "raised"]) /\ UNCHANGED <<ent, last>>
                   ELSE /\ Step(i, [co EXCEPT !.k = co.k + 1,
                                       !.pc = IF co.k = Len(co.updates) THEN "request"
                                              ELSE "apply"])
                        /\ ent' = [ent EXCEPT ![task.kind] = applied.val]
                        /\ last' = [last EXCEPT !.order = Append(last.order, i)]
               Round(co) == Applied(co, _apply_update(ent[task.kind], co.updates[co.k][1],
                                                      co.updates[co.k][2]))
           IN  Round(task.co[i])
        /\ UNCHANGED <<enumv, gens>>

\* request = glm.Update...Request(<entity>=self.to_dict(), update_mask=field_mask)
UpdateAsyncRequest ==
    \E i \in TaskIds :
        /\ CanRun(i) /\ task.co[i].pc = "request"
        /\ LET Built(co, entity) ==
                   IF ~entity.ok THEN Step(i, [co EXCEPT !.pc = "raised"])
                   ELSE Step(i, [co EXCEPT !.pc = "call",
                                    !.request = [entity |-> entity.val, update_mask |-> co.mask]])
           IN  Built(task.co[i],
                     CASE task.kind = "Corpus" -> Ok(Corpus_to_dict(ent.Corpus))
                       [] task.kind = "Document" -> Ok(Document_to_dict(ent.Document))
                       [] task.kind = "Chunk" -> Chunk_to_dict(ent.Chunk))
        /\ UNCHANGED <<enumv, ent, last, gens>>

\* await client.update_...(request, **request_options): the call is made
\* and the coroutine waits for its answer
UpdateAsyncCall ==
    \E i \in TaskIds :
        /\ CanRun(i) /\ task.co[i].pc = "call"
        /\ Step(i, [task.co[i] EXCEPT !.pc = "await"])
        /\ last' = [last EXCEPT
                       !.sent = Append(last.sent,
                                       [id |-> i,
                                        call |-> Call("default_async",
                                                      CASE task.kind = "Corpus" -> "update_corpus"
                                                        [] task.kind = "Document" -> "update_document"
                                                        [] task.kind = "Chunk" -> "update_chunk",
                                                      task.co[i].request, "{}")])]
        /\ UNCHANGED <<enumv, ent, gens>>

\* The remote call of task i answers, in whatever order the service does:
\* the coroutine returns self, or the call's error is raised.
UpdateAsyncReply ==
    \E i \in TaskIds :
        /\ task.running = 0 /\ task.co[i].pc = "await"
        /\ \E failed \in BOOLEAN :
               Step(i, [task.co[i] EXCEPT !.pc = IF failed THEN "raised" ELSE "done"])
        /\ last' = [last EXCEPT !.replied = Append(last.replied, i)]
        /\ UNCHANGED <<enumv, ent, gens>>

TasksNext ==
    \/ UpdateAsyncStart
    \/ UpdateAsyncValidate
    \/ UpdateAsyncMask
    \/ UpdateAsyncApply
    \/ UpdateAsyncRequest
    \/ UpdateAsyncCall
    \/ UpdateAsyncReply

SpecTasks == TasksInit /\ [][TasksNext]_vars

---------------------------------------------------------------------------
(* Claims about the facades (Spec) *)

\* An invocation has finished.
Done == last # Nothing

UpdateOps == {"Corpus.update", "Document.update", "Chunk.update"}

\* The paths an update of an entity of this kind may name.
AllowList(kind) == IF kind = "Chunk" THEN {"data.string_value"} ELSE {"display_name"}

\* The paths of an update mapping once flattened, in order.
FlatPaths(updates) ==
    LET flat == flatten_update_paths(updates) IN [i \in DOMAIN flat |-> flat[i][1]]

HasDisallowed(kind, updates) ==
    \E i \in DOMAIN FlatPaths(updates) : FlatPaths(updates)[i] \notin AllowList(kind)

\* C1: Corpus.update, Document.update and Chunk.update, blocking or
\* suspending, reject disallowed paths atomically: when the flattened updates
\* hold a path outside the entity's allow-list the call raises, sends
\* nothing, and the entity is field for field what it was before the call,
\* wherever the disallowed path stands in the mapping.
C1_DisallowedPathLeavesEntityUntouched ==
    /\ (Done /\ last.op \in UpdateOps /\ HasDisallowed(last.kind, last.args.updates)) =>
           /\ ~last.result.ok
           /\ last.after = last.before
           /\ ent[last.kind] = last.before
           /\ task = Nothing
    /\ (task # Nothing /\ task.op \in UpdateOps) => ~HasDisallowed(task.kind, task.args.updates)

\* C1 witness: Document.update({"display_name": "x", "bogus": "y"}) has
\* raised and the Document's display_name is still the old one.
C1_Witness ==
    /\ Done /\ last.op = "Document.update"
    /\ last.args.updates = << <<"display_name", Str("x")>>, <<"bogus", Str("y")>> >>
    /\ ~last.result.ok
    /\ ent.Document.display_name = Str("old")

\* The field masks of the update requests in calls: the mask of an
\* UpdateChunkRequest, the mask of every request of a BatchUpdateChunksRequest.
ChunkMasks(calls) ==
    {calls[i].request.update_mask : i \in {j \in DOMAIN calls : calls[j].rpc = "update_chunk"}}
    \cup UNION {{calls[i].request.requests[k].update_mask :
                    k \in DOMAIN calls[i].request.requests} :
                i \in {j \in DOMAIN calls : calls[j].rpc = "batch_update_chunks"}}

\* The update mappings an invocation of batch_update_chunks was given, one
\* per chunk: the values of a mapping, the second items of the tuples.
BatchMappings(chunks) ==
    IF IsDict(chunks) THEN {chunks.items[i][2] : i \in DOMAIN chunks.items}
    ELSE IF chunks.t = "list"
    THEN {chunks.items[i].items[2] :
             i \in {j \in DOMAIN chunks.items : chunks.items[j].t = "tuple"}}
    ELSE {}

\* C2: for a Chunk every update path that is applied or sent in a field
\* mask is data.string_value, whichever of Chunk.update and
\* Document.batch_update_chunks (blocking or suspending) carries the update,
\* and an update that names any other path is rejected with an error.
C2_OnlyDataStringValueIsUpdated ==
    (Done /\ last.op \in {"Chunk.update", "Document.batch_update_chunks"}) =>
        /\ \A mask \in ChunkMasks(last.calls) :
               \A i \in DOMAIN mask : mask[i] = "data.string_value"
        /\ last.op = "Chunk.update" =>
               (HasDisallowed("Chunk", last.args.updates) => ~last.result.ok)
        /\ last.op = "Document.batch_update_chunks" =>
               \A u \in BatchMappings(last.args.chunks) :
                   (IsDict(u) /\ HasDisallowed("Chunk", u.items)) => ~last.result.ok

ValidationErrors ==
    {"ValueError: NAME_ERROR_MSG", "ValueError: only display_name can be updated",
     "ValueError: only data can be updated", "ValueError: results_count",
     "ValueError: Tuples should have length 2 or 3"}

\* The arguments of an invocation that the method's validation rejects.
InvalidArguments(op, kind, a) ==
    CASE op \in {"Corpus.create_document", "Document.create_chunk"} ->
            a.name # None /\ ~valid_name(a.name.s)
      [] op \in UpdateOps -> HasDisallowed(kind, a.updates)
      [] op \in {"Corpus.query", "Document.query"} ->
            a.results_count # None /\ a.results_count.i > 100
      [] op = "Document.batch_create_chunks" ->
            /\ a.chunks.t = "list"
            /\ \E i \in DOMAIN a.chunks.items :
                   /\ a.chunks.items[i].t = "tuple"
                   /\ Len(a.chunks.items[i].items) \notin {2, 3}
                   /\ \A j \in 1 .. i - 1 : a.chunks.items[j].t \in {"str", "tuple"}
      [] OTHER -> FALSE

\* C3: a validation error is raised before any remote call: an invalid name
\* given to create_document or create_chunk, a disallowed update path, an
\* out-of-bound results_count, a tuple of batch_create_chunks whose length is
\* neither 2 nor 3 make the invocation raise with no call sent to the client,
\* and none is sent afterwards.
C3_ValidationBeforeAnyCall ==
    /\ Done =>
           /\ (~last.result.ok /\ last.result.err \in ValidationErrors) =>
                  (last.calls = <<>> /\ task = Nothing)
           /\ InvalidArguments(last.op, last.kind, last.args) =>
                  /\ ~last.result.ok
                  /\ last.result.err \in ValidationErrors
                  /\ last.calls = <<>>
    /\ task # Nothing => ~InvalidArguments(task.op, task.kind, task.args)

\* C3 witness: create_chunk with an invalid name, given an injected client,
\* has raised the name error.
C3_Witness ==
    /\ Done /\ last.op = "Document.create_chunk"
    /\ last.args.name = Str("a_b") /\ last.args.client = "injected"
    /\ last.result = Raise("ValueError: NAME_ERROR_MSG")
    /\ last.calls = <<>>

\* getattr along a dotted path
RECURSIVE GetParts(_, _)
GetParts(obj, parts) ==
    IF parts = <<>> THEN obj ELSE GetParts(obj[parts[1]], Tail(parts))

\* C4: for a successful update the field mask sent is the sequence of the
\* keys of the flattened updates, in order and without duplicates, and each
\* of those paths holds the supplied value on the entity afterwards;
\* {"data": {"string_value": "hi"}} on a Chunk gives the mask
\* ["data.string_value"] and data.string_value == "hi".
C4_FieldMaskIsTheFlattenedKeys ==
    (Done /\ last.op \in UpdateOps /\ last.result.ok) =>
        LET flat == flatten_update_paths(last.args.updates)
            sent == last.calls[1].request.update_mask
        IN  /\ Len(last.calls) = 1
            /\ sent = [i \in DOMAIN flat |-> flat[i][1]]
            /\ \A i, j \in DOMAIN sent : i # j => sent[i] # sent[j]
            /\ \A i \in DOMAIN flat : GetParts(ent[last.kind], Split(flat[i][1])) = flat[i][2]
            /\ last.result.val = ent[last.kind]
            /\ (last.op = "Chunk.update"
                  /\ last.args.updates =
                         << <<"data", Dict(<< <<"string_value", Str("hi")>> >>)>> >>)
               => (sent = <<"data.string_value">> /\ ent.Chunk.data.string_value = Str("hi"))

\* C4 witness: Chunk.update({"data": {"string_value": "hi"}}) has returned.
C4_Witness ==
    /\ Done /\ last.op = "Chunk.update" /\ last.result.ok
    /\ last.args.updates = << <<"data", Dict(<< <<"string_value", Str("hi")>> >>)>> >>
    /\ ent.Chunk.data.string_value = Str("hi")

\* The blocking method of an operation, run up to its remote call.
BlockingStep(op, self, a) ==
    CASE op = "Corpus.create_document" -> Corpus_create_document(self, a)
      [] op = "Corpus.get_document" -> Corpus_get_document(self, a)
      [] op = "Corpus.update" -> Corpus_update(self, a)
      [] op = "Corpus.query" -> Corpus_query(self, a)
      [] op = "Corpus.delete_document" -> Corpus_delete_document(self, a)
      [] op = "Corpus.list_documents" -> Corpus_list_documents(self, a)
      [] op = "Document.create_chunk" -> Document_create_chunk(self, a)
      [] op = "Document.batch_create_chunks" -> Document_batch_create_chunks(self, a)
      [] op = "Document.get_chunk" -> Document_get_chunk(self, a)
      [] op = "Document.query" -> Document_query(self, a)
      [] op = "Document.update" -> Document_update(self, a)
      [] op = "Document.batch_update_chunks" -> Document_batch_update_chunks(self, a)
      [] op = "Document.delete_chunk" -> Document_delete_chunk(self, a)
      [] op = "Document.batch_delete_chunks" -> Document_batch_delete_chunks(self, a)
      [] op = "Document.list_chunks" -> Document_list_chunks(self, a)
      [] OTHER -> Chunk_update(self, a)

\* A call as the blocking method makes it: to the blocking default client
\* where the suspending method takes the suspending default client.
AsBlocking(call) ==
    IF call.client = "default_async" THEN [call EXCEPT !.client = "default"] ELSE call

CallsOf(step) == IF step.kind = "raised" THEN step.calls ELSE Append(step.calls, step.call)

\* C5: the blocking and the suspending form of an operation are equivalent:
\* with the same arguments, the same entity and the same answers of the
\* service, the suspending method sends the requests the blocking one sends,
\* leaves the entity as the blocking one leaves it, and returns or raises
\* what the blocking one returns or raises; a suspending generator sends the
\* request and yields the items its blocking twin does.
C5_SuspendingEqualsBlocking ==
    /\ (Done /\ last.mode = "async") =>
           LET step == BlockingStep(last.op, last.before, last.args)
           IN  /\ [i \in DOMAIN last.calls |-> AsBlocking(last.calls[i])] = CallsOf(step)
               /\ last.after = step.self
               /\ ent[last.kind] = step.self
               /\ last.result = IF step.kind = "raised" THEN Raise(step.err)
                                ELSE Complete(step.then, step.self, last.resp)
    /\ task # Nothing =>
           LET step == BlockingStep(task.op, task.before, task.args)
           IN  /\ step.kind = "await"
               /\ AsBlocking(task.step.call) = step.call
               /\ task.step.calls = step.calls
               /\ ent[task.kind] = step.self
    /\ \A c \in Consumers :
           (gens[c] # Nothing /\ gens[c].mode = "async" /\ gens[c].pc # "created") =>
               LET g == gens[c]
                   self == IF g.op = "Corpus.list_documents" THEN ent.Corpus ELSE ent.Document
                   step == BlockingStep(g.op, self, g.args)
               IN  /\ [i \in DOMAIN g.calls |-> AsBlocking(g.calls[i])] = <<step.call>>
                   /\ \A i \in DOMAIN g.yielded :
                          Ok(g.yielded[i]) = YieldOf(step.then, g.items[i])
                   /\ g.pc = "failed" /\ g.taken > 0 =>
                          /\ ~YieldOf(step.then, g.items[g.taken]).ok
                          /\ YieldOf(step.then, g.items[g.taken]).err = g.err

\* C5 witness: a suspending batch_update_chunks has fetched a chunk, sent
\* its request and returned the response.
C5_Witness ==
    /\ Done /\ last.mode = "async" /\ last.op = "Document.batch_update_chunks"
    /\ Len(last.calls) = 2
    /\ last.result.ok

SingleEntityOps ==
    {"Corpus.create_document", "Corpus.get_document", "Corpus.delete_document",
     "Corpus.update", "Corpus.query", "Document.update", "Document.query",
     "Document.create_chunk", "Document.get_chunk", "Document.delete_chunk", "Chunk.update"}

\* C6: no retries and no recovery: an invocation of a single-entity
\* operation calls the client at most once, the client it was given if it
\* was given one, and when the call fails the failure is what the caller
\* gets.
C6_OneCallAndFailuresPropagate ==
    /\ (Done /\ last.op \in SingleEntityOps) =>
           /\ Len(last.calls) <= 1
           /\ \A i \in DOMAIN last.calls :
                  last.args.client = "injected" => last.calls[i].client = "injected"
           /\ last.resp.fail => (Len(last.calls) = 1 /\ last.result = Raise(last.resp.err))
    /\ (task # Nothing /\ task.op \in SingleEntityOps) => task.step.calls = <<>>

\* C6 witness: get_document's call to the injected client failed, once,
\* and the failure was raised.
C6_Witness ==
    /\ Done /\ last.op = "Corpus.get_document" /\ last.args.client = "injected"
    /\ last.resp.fail
    /\ Len(last.calls) = 1
    /\ last.result = Raise("ServiceUnavailable")

\* What C7 says of one generator.
LazyGenerator(g) ==
    LET then == GenBody(g).then
    IN  /\ g.pc = "created" => (g.calls = <<>> /\ g.asked = 0)
        /\ g.pc # "created" => g.calls = <<GenBody(g).call>>
        /\ g.taken <= g.asked
        /\ g.taken <= Len(g.items)
        /\ g.pc = "suspended" => (g.taken = g.asked /\ Len(g.yielded) = g.asked)
        /\ Len(g.yielded) \in {g.taken, g.taken - 1}
        /\ \A i \in DOMAIN g.yielded : Ok(g.yielded[i]) = YieldOf(then, g.items[i])

\* C7: list_documents and list_chunks are lazy: no request before the first
\* item is asked for, items come in the transport's order, each decoded once
\* and none before the consumer asks for it (k items asked, k items decoded),
\* and every call of the list operation sends its own request and shares
\* nothing with another call: a step of one generator leaves the other as
\* it was.
C7_ListingIsLazy ==
    /\ [](\A c \in Consumers : gens[c] # Nothing => LazyGenerator(gens[c]))
    /\ [][\A c, d \in Consumers : (c # d /\ gens'[c] # gens[c]) => gens'[d] = gens[d]]_vars

\* C7 witness: both consumers hold a generator of list_documents; the first
\* was asked for one item and has decoded one of the two the transport
\* holds, the second has not been asked and has sent nothing.
C7_Witness ==
    /\ gens["first"] # Nothing /\ gens["second"] # Nothing
    /\ gens["first"].op = "Corpus.list_documents" /\ gens["second"].op = "Corpus.list_documents"
    /\ gens["first"].pc = "suspended" /\ gens["first"].asked = 1
    /\ Len(gens["first"].items) = 2 /\ Len(gens["first"].yielded) = 1
    /\ gens["second"].pc = "created" /\ gens["second"].calls = <<>>

\* The resource names a create request carries.
CreatedNames(call) ==
    CASE call.rpc = "create_document" -> {call.request.document.name}
      [] call.rpc = "create_chunk" -> {call.request.chunk.name}
      [] call.rpc = "batch_create_chunks" ->
            {call.request.requests[i].chunk.name : i \in DOMAIN call.request.requests}
      [] OTHER -> {}

\* name is absent, or parent, the collection and an id valid_name accepts
WellFormedName(name, parent, collection) ==
    \/ name = None
    \/ LET prefix == parent.s \o collection
           n == Len(prefix)
       IN  /\ Len(name.s) > n
           /\ SubSeq(name.s, 1, n) = prefix
           /\ valid_name(SubSeq(name.s, n + 1, Len(name.s)))

\* C8: every resource name a create operation places in a request
\* (create_document, create_chunk, batch_create_chunks in every input shape,
\* generated names included) is absent or the parent's name followed by an
\* id the name validator accepts.
C8_CreatedNamesAreValid ==
    (Done /\ last.op \in {"Corpus.create_document", "Document.create_chunk",
                          "Document.batch_create_chunks"}) =>
        \A i \in DOMAIN last.calls :
            \A name \in CreatedNames(last.calls[i]) :
                WellFormedName(name, last.before.name,
                               IF last.op = "Corpus.create_document" THEN "/documents/"
                               ELSE "/chunks/")

---------------------------------------------------------------------------
(* Claims about the enum coercers (SpecEnum) *)

EnumDone == enumv.pc = "done"

\* The members of the family a finished call coerces to.
EnumFamily == FamilyOf(enumv.fn)

EnumUnspecified ==
    IF enumv.fn = "to_state" THEN State("STATE_UNSPECIFIED")
    ELSE TunedModelState("STATE_UNSPECIFIED")

\* An input no member of the family stands for: an integer that is no
\* member's wire value, a string that is no alias.
UnknownInt(x) ==
    /\ x.t = "int"
    /\ \A m \in EnumFamily : WireValue(enumv.rev, m) # x.i

UnknownStr(x) == x.t = "str" /\ LowerText(x.s) \in {"bogus", "", " active"}

StateCoercion == enumv.fn \in {"to_state", "to_tuned_model_state", "decode_tuned_model"}

\* C9, as claimed: for TunedModelState and Chunk.State every unknown or
\* absent input (None, a missing key, an unmapped string, an unmapped integer)
\* is coerced to the UNSPECIFIED member and the coercion does not fail.
C9_UnknownBecomesUnspecified ==
    (EnumDone /\ StateCoercion
        /\ (enumv.x \in {None, Absent} \/ UnknownInt(enumv.x) \/ UnknownStr(enumv.x)))
    => enumv.out = Ok(EnumUnspecified)

\* C9, amended: None (and a missing state key of a raw tuned model) is
\* coerced to TunedModelState.STATE_UNSPECIFIED; None given to to_state, and
\* an unmapped string or integer given to either coercer, raises KeyError;
\* a coercion that returns, returns one of the family's four members.
C9_UnknownRaisesNoneDefaults ==
    (EnumDone /\ StateCoercion) =>
        /\ (enumv.x \in {None, Absent} /\ enumv.fn # "to_state")
               => enumv.out = Ok(TunedModelState("STATE_UNSPECIFIED"))
        /\ (enumv.x = None /\ enumv.fn = "to_state") => enumv.out = Raise("KeyError")
        /\ (UnknownInt(enumv.x) \/ UnknownStr(enumv.x)) => enumv.out = Raise("KeyError")
        /\ enumv.out.ok => (enumv.out.val \in EnumFamily /\ Cardinality(EnumFamily) = 4)

\* C9 witness: to_tuned_model_state(None) has returned STATE_UNSPECIFIED.
C9_Witness ==
    /\ EnumDone
    /\ enumv.fn = "to_tuned_model_state"
    /\ enumv.x = None
    /\ enumv.out = Ok(TunedModelState("STATE_UNSPECIFIED"))

\* The table a coercer reads, as its items are written.
EnumTable ==
    CASE enumv.fn = "to_operator" -> _OPERATOR(enumv.rev)
      [] enumv.fn = "to_state" -> _STATE
      [] OTHER -> _TUNED_MODEL_STATES

\* text is written in the table as an alias of member m
IsAlias(text, m) ==
    \E i \in DOMAIN EnumTable : EnumTable[i] = <<Str(text), m>>

\* C10: for every member v of each family, coercion returns v when given v
\* itself, v's integer wire value, or a string alias of v in any letter case.
C10_CoercionReturnsTheMember ==
    (EnumDone /\ enumv.fn \in {"to_operator", "to_state", "to_tuned_model_state"}) =>
        \A v \in EnumFamily :
            /\ enumv.x = v => enumv.out = Ok(v)
            /\ enumv.x = PyInt(WireValue(enumv.rev, v)) => enumv.out = Ok(v)
            /\ (enumv.x.t = "str" /\ IsAlias(LowerText(enumv.x.s), v)) => enumv.out = Ok(v)

\* C11: for every input a coercer accepts, coercing the result again
\* succeeds and returns the value the first coercion returned.
C11_CoercionIsIdempotent ==
    enumv.pc = "again" => enumv.again = enumv.out

\* C13: the chunks a query returns carry the times decode_chunk gives the
\* same messages (absent, or tagged UTC): whenever decode_chunk decodes
\* every chunk of the response, the query returns, and each RelevantChunk
\* holds the Chunk that decode_chunk returns for its message.
C13_QueryChunksDecodedLikeGetChunk ==
    (/\ Done
     /\ last.op \in {"Corpus.query", "Document.query"}
     /\ ~last.resp.fail
     /\ "relevant_chunks" \in DOMAIN last.resp.msg)
        => LET items == last.resp.msg.relevant_chunks
           IN  (\A i \in DOMAIN items : decode_chunk(items[i].chunk).ok)
                   => /\ last.result.ok
                      /\ \A i \in DOMAIN items :
                            last.result.val[i].chunk = decode_chunk(items[i].chunk).val

\* C20: a query with a results_count above 100 raises, blocking or
\* suspending, on a Corpus or on a Document, and no request is made.
C20_ResultsCountAbove100IsRejected ==
    (/\ Done
     /\ last.op \in {"Corpus.query", "Document.query"}
     /\ last.args.results_count # None
     /\ last.args.results_count.i > 100)
        => /\ ~last.result.ok
           /\ last.result.err = "ValueError: results_count"
           /\ last.calls = <<>>
           /\ last.after = last.before

\* Document.query was given 101 and raised without a request.
C20_Witness ==
    /\ Done
    /\ last.op = "Document.query"
    /\ last.args.results_count = PyInt(101)
    /\ ~last.result.ok
    /\ last.calls = <<>>

\* An id as the docstrings of create_document and create_chunk describe it:
\* 1 up to 40 lowercase alphanumerics or dashes, no dash first or last.
IsDocumentedId(name) ==
    /\ Len(name) \in 1 .. 40
    /\ \A i \in 1 .. Len(name) : InClass(CharAt(name, i), LowerAlnum \o "-")
    /\ CharAt(name, 1) # "-"
    /\ CharAt(name, Len(name)) # "-"

\* C24: create_document and create_chunk accept every id of the documented
\* shape: no ValueError, and one create request whose entity name is the
\* parent's name, "/documents/" or "/chunks/", and the id.
C24_DocumentedIdsAreAccepted ==
    (/\ Done
     /\ last.op \in {"Corpus.create_document", "Document.create_chunk"}
     /\ last.args.name # None
     /\ IsDocumentedId(last.args.name.s))
        => /\ last.result # Raise("ValueError: NAME_ERROR_MSG")
           /\ Len(last.calls) = 1
           /\ CreatedNames(last.calls[1])
                 = {Str(last.before.name.s
                          \o (IF last.op = "Corpus.create_document" THEN "/documents/"
                              ELSE "/chunks/")
                          \o last.args.name.s)}

\* The entity holds every value of the update mapping at the path that
\* names it.
HoldsUpdates(entity, kind, updates) ==
    LET flat == flatten_update_paths(updates)
    IN  \A i \in DOMAIN flat :
            flat[i][2] = (IF kind = "Chunk" THEN entity.data.string_value
                          ELSE entity.display_name)

\* The entity an update request carries.
SentEntity(call) ==
    CASE call.rpc = "update_corpus" -> call.request.corpus
      [] call.rpc = "update_document" -> call.request.document
      [] call.rpc = "update_chunk" -> call.request.chunk

\* C25: an update is not rolled back when the remote call fails.  The
\* entity is mutated before the call: while a suspending update waits for
\* its call the entity already holds the new values, and the request holds
\* them too.  When the update call fails the error is raised on and the
\* entity keeps the new values.
C25_FailedUpdateKeepsNewValues ==
    /\ (task # Nothing /\ task.op \in UpdateOps)
          => HoldsUpdates(ent[task.kind], task.kind, task.args.updates)
    /\ (Done /\ last.op \in UpdateOps /\ last.calls # <<>>)
          => /\ Len(last.calls) = 1
             /\ LET sent == SentEntity(last.calls[1])
                    flat == flatten_update_paths(last.args.updates)
                IN  \A i \in DOMAIN flat :
                        IF last.kind = "Chunk" THEN sent.data.items = << <<"string_value", flat[i][2]>> >>
                        ELSE sent.display_name = flat[i][2]
             /\ last.resp.fail
                   => /\ last.result = Raise(last.resp.err)
                      /\ HoldsUpdates(last.after, last.kind, last.args.updates)
                      /\ HoldsUpdates(ent[last.kind], last.kind, last.args.updates)

\* C25 witness: Corpus.update({"display_name": "x"}) has failed at its
\* remote call and the Corpus is named "x", which it was not before.
C25_Witness ==
    /\ Done /\ last.op = "Corpus.update" /\ last.mode = "sync"
    /\ last.args.updates = << <<"display_name", Str("x")>> >>
    /\ last.calls # <<>> /\ last.resp.fail /\ ~last.result.ok
    /\ last.before.display_name # Str("x")
    /\ ent.Corpus.display_name = Str("x")

\* C26: with an injected client every remote call of the invocation goes
\* through that client and with the request options the caller gave, the
\* get_chunk calls of batch_update_chunks included; and the suspending
\* batch_update_chunks makes no call through the blocking default client.
C26_InjectedClientCarriesEveryCall ==
    /\ (Done /\ last.args.client = "injected")
          => \A i \in DOMAIN last.calls :
                 /\ last.calls[i].client = "injected"
                 /\ IF last.args.request_options = "none"
                    THEN last.calls[i].options \in {"{}", "unset"}
                    ELSE last.calls[i].options = last.args.request_options
    /\ (Done /\ last.op = "Document.batch_update_chunks" /\ last.mode = "async")
          => \A i \in DOMAIN last.calls : last.calls[i].client # "default"

\* C27: batch_delete_chunks of an iterable of names, a list or a one-shot
\* iterator, the empty one included, sends one batch request with a
\* DeleteChunkRequest for every name, in the iterable's order.
C27_EveryNameIsDeleted ==
    (/\ Done /\ last.op = "Document.batch_delete_chunks"
     /\ \A i \in DOMAIN last.args.chunks.items : IsStr(last.args.chunks.items[i]))
        => /\ Len(last.calls) = 1
           /\ last.calls[1].rpc = "batch_delete_chunks"
           /\ last.calls[1].request.requests
                 = [i \in DOMAIN last.args.chunks.items
                        |-> DeleteChunkRequest(last.args.chunks.items[i])]

\* The name the caller gave with a chunk of batch_create_chunks, "" for none.
SuppliedName(chunk) ==
    CASE chunk.t = "tuple" -> IF chunk.items[1] = None THEN "" ELSE chunk.items[1].s
      [] chunk.t = "dict" /\ DictHas(chunk.items, "name") -> DictGet(chunk.items, "name").s
      [] OTHER -> ""

\* C28: the request of batch_create_chunks for a list of chunks has one
\* CreateChunkRequest per chunk, in order, with the document as parent and
\* the chunk named <document name>/chunks/<id>, <id> being the name given or
\* the chunk's position; and when the names given are pairwise distinct so
\* are the chunk names of the request.
C28_BatchCreateNamesAreDistinct ==
    (/\ Done /\ last.op = "Document.batch_create_chunks"
     /\ last.args.chunks.t = "list" /\ last.calls # <<>>)
        => LET items == last.args.chunks.items
               requests == last.calls[1].request.requests
               given == {i \in DOMAIN items : SuppliedName(items[i]) # ""}
           IN  /\ Len(requests) = Len(items)
               /\ \A i \in DOMAIN items :
                      /\ requests[i].parent = last.before.name
                      /\ requests[i].chunk.name
                            = Str(last.before.name.s \o "/chunks/"
                                    \o (IF i \in given THEN SuppliedName(items[i])
                                        ELSE NatText(i - 1)))
               /\ (\A i, k \in given : i # k => SuppliedName(items[i]) # SuppliedName(items[k]))
                     => \A i, k \in DOMAIN requests :
                            i # k => requests[i].chunk.name # requests[k].chunk.name

\* The finished query sent its request: one call, carrying results_count.
QueryIssued ==
    /\ Len(last.calls) = 1
    /\ last.calls[1].rpc = (IF last.op = "Corpus.query" THEN "query_corpus"
                            ELSE "query_document")
    /\ last.calls[1].request.results_count = last.args.results_count

\* The finished query raised on results_count and sent nothing.
QueryRejected ==
    /\ last.calls = <<>>
    /\ ~last.result.ok
    /\ last.result.err = "ValueError: results_count"

---------------------------------------------------------------------------
(* Claims about the decoders (SpecCodec) *)

CodecDone(fn) == enumv.pc \in {"done", "again"} /\ enumv.fn = fn

\* The time idecode_time was given under "create_time", Absent for none.
TimeGiven == IF "create_time" \in DOMAIN enumv.x THEN enumv.x.create_time ELSE Absent

\* The digits of the fraction of a wire timestamp "<date>T<time>.<digits>Z",
\* "" for a text of another form.
FractionDigits(text) ==
    LET b == Len(DateShape)
        n == DigitRun(text, b + 2)
    IN  IF /\ Len(text) = b + n + 2
           /\ HasDateShape(SubSeq(text, 1, b))
           /\ CharAt(text, b + 1) = "."
           /\ CharAt(text, Len(text)) = "Z"
        THEN SubSeq(text, b + 2, b + 1 + n)
        ELSE ""

\* m is 0.<digits> * 10^6 rounded to an integer: exact for up to six digits,
\* otherwise an integer at most half a microsecond away.
IsRoundedMicros(m, digits) ==
    LET n == Len(digits)
        v == ToNat(digits)
        diff == m * Pow10(n - 6) - v
    IN  IF n <= 6 THEN m = v * Pow10(6 - n)
        ELSE 2 * (IF diff < 0 THEN -diff ELSE diff) <= Pow10(n - 6)

\* C12: a timestamp with a fraction of one or more digits is decoded, and
\* the microsecond field of the result is the fraction times 10^6, rounded.
C12_FractionIsRoundedToMicroseconds ==
    (/\ CodecDone("idecode_time")
     /\ TimeGiven \notin {Absent, None}
     /\ FractionDigits(TimeGiven.s) # "")
        => /\ enumv.out.ok
           /\ IsRoundedMicros(enumv.out.val.create_time.micro, FractionDigits(TimeGiven.s))

\* The value the raw record holds under key, None for a key it has not or
\* holds None under.
Given(key) == IF key \in DOMAIN enumv.x THEN enumv.x[key] ELSE None

\* C14: a decoded TunedModel has base_model and source_model both equal to
\* the raw base_model when there is one; otherwise they are the base_model
\* and the tuned_model of the raw tuned_model_source when there is one;
\* otherwise both are None.  It has no tuned_model_source.
C14_SourceFieldsAreReconciled ==
    (CodecDone("decode_tuned_model") /\ enumv.out.ok)
        => LET model == enumv.out.val
           IN  /\ "tuned_model_source" \notin DOMAIN model
               /\ IF Given("base_model") # None
                  THEN /\ model.base_model = enumv.x.base_model
                       /\ model.source_model = enumv.x.base_model
                  ELSE IF Given("tuned_model_source") # None
                  THEN /\ model.base_model = enumv.x.tuned_model_source.base_model
                       /\ model.source_model = enumv.x.tuned_model_source.tuned_model
                  ELSE model.base_model = None /\ model.source_model = None

\* A record with a tuned_model_source and no base_model was decoded, and
\* the TunedModel has the two names of the tuned_model_source.
C14_Witness ==
    /\ CodecDone("decode_tuned_model") /\ enumv.out.ok
    /\ Given("base_model") = None
    /\ Given("tuned_model_source") # None
    /\ enumv.out.val.base_model = Str("models/sb")
    /\ enumv.out.val.source_model = Str("tunedModels/t")

\* C15: when decode_tuned_model, decode_document or decode_chunk is over, no
\* remote call has been made and the record the caller passed in is the
\* record it was before the call.
C15_DecodersLeaveTheRawRecord ==
    (\E fn \in {"decode_tuned_model", "decode_document", "decode_chunk"} : CodecDone(fn))
        => /\ enumv.raw = enumv.x
           /\ last = Nothing /\ task = Nothing

\* C16: decoding the record of a decoded TunedModel's fields, each already
\* of its canonical type, does not raise and gives the TunedModel again.
C16_DecodeTunedModelIsIdempotent ==
    (enumv.pc = "again" /\ enumv.fn = "decode_tuned_model")
        => enumv.again = enumv.out

---------------------------------------------------------------------------
(* Claims about the tuning-data encoder (SpecCodec) *)

\* The text an example holds for the element v of a sequence: v itself for
\* a str, its decimal digits for a number.
IsTextOf(text, v) ==
    IF IsStr(v) THEN text = v
    ELSE v.t = "int" => (IsStr(text) /\ text.s # "" /\ ToNat(text.s) = v.i)

\* The mapping given to encode_tuning_data holds a sequence under both keys.
SequencesGiven ==
    /\ CodecDone("encode_tuning_data")
    /\ IsMapping(enumv.x.data)
    /\ {enumv.x.input_key, enumv.x.output_key} \subseteq DOMAIN enumv.x.data
    /\ \A key \in {enumv.x.input_key, enumv.x.output_key} :
          enumv.x.data[key].t \in {"list", "tuple"}

\* C17: a mapping with a sequence under input_key and one under output_key
\* is encoded without error into as many examples as the shorter sequence
\* has, example i holding inputs[i] and outputs[i].
C17_MappingIsZippedToTheShorter ==
    SequencesGiven
        => LET inputs == enumv.x.data[enumv.x.input_key].items
               outputs == enumv.x.data[enumv.x.output_key].items
               n == IF Len(inputs) < Len(outputs) THEN Len(inputs) ELSE Len(outputs)
           IN  /\ enumv.out.ok
               /\ enumv.out.val.t = "Dataset"
               /\ Len(enumv.out.val.examples) = n
               /\ \A i \in 1 .. n :
                     /\ IsTextOf(enumv.out.val.examples[i].text_input, inputs[i])
                     /\ IsTextOf(enumv.out.val.examples[i].output, outputs[i])

\* Three inputs and one output were given and one example came out.
C17_Witness ==
    /\ SequencesGiven
    /\ Len(enumv.x.data[enumv.x.input_key].items) = 3
    /\ Len(enumv.x.data[enumv.x.output_key].items) = 1
    /\ enumv.out.ok
    /\ Len(enumv.out.val.examples) = 1

HasText(s, sub) ==
    \E i \in 1 .. Len(s) - Len(sub) + 1 : SubSeq(s, i, i + Len(sub) - 1) = sub

\* C19: the error raised for a spreadsheet URL that cannot be parsed has the
\* URL in its message, and the error raised for a malformed timestamp has
\* the timestamp, as it was given, in its message.
C19_ErrorsCarryTheRawValue ==
    /\ (CodecDone("_normalize_url") /\ ~enumv.out.ok)
          => HasText(enumv.out.text, enumv.x.s)
    /\ (CodecDone("idecode_time") /\ ~enumv.out.ok)
          => HasText(enumv.out.text, TimeGiven.s)

\* C30: _normalize_url is idempotent: given the URL it returned, it
\* returns that URL and raises nothing.
C30_NormalizeUrlIsIdempotent ==
    (enumv.pc = "again" /\ enumv.fn = "_normalize_url")
        => /\ enumv.again.ok
           /\ enumv.again = enumv.out

\* C30 witness: the URL of a spreadsheet tab was rewritten, and the
\* rewritten URL, a spreadsheet URL itself, came back unchanged.
C30_Witness ==
    /\ enumv.pc = "again" /\ enumv.fn = "_normalize_url"
    /\ enumv.x = Str(sheet_base \o "/d/ID/edit#gid=42")
    /\ enumv.out.val # enumv.x
    /\ enumv.again = Ok(Str(sheet_base \o "/d/ID/export?format=csv&gid=42"))

---------------------------------------------------------------------------
(* Claims about the name validators (SpecCodec) *)

\* name is made of lowercase alphanumerics and dashes only.
OnlyNameChars(name) ==
    \A i \in 1 .. Len(name) : InClass(CharAt(name, i), LowerAlnum \o "-")

\* A lowercase letter, then 0 to 61 lowercase alphanumerics or dashes and,
\* for a name of more than one character, a lowercase alphanumeric last.
IsTunedModelName(name) ==
    /\ Len(name) \in 1 .. 63
    /\ InClass(CharAt(name, 1), LowerLetters)
    /\ OnlyNameChars(name)
    /\ Len(name) > 1 => InClass(CharAt(name, Len(name)), LowerAlnum)

\* C22: valid_tuned_model_name is true for every name of the pattern, and
\* false for a name of more than 63 characters, for a name that starts with
\* a digit or a dash and for a name with any other character in it.
C22_TunedModelNamePattern ==
    CodecDone("valid_tuned_model_name")
        => LET name == enumv.x.s
           IN  /\ IsTunedModelName(name) => enumv.out = Ok(TRUE)
               /\ (\/ Len(name) > 63
                   \/ (name # "" /\ InClass(CharAt(name, 1), Digits \o "-"))
                   \/ ~OnlyNameChars(name))
                     => enumv.out = Ok(FALSE)

\* C23: valid_name is truthy exactly for the names of fewer than 40
\* characters that start and end with a lowercase alphanumeric (two
\* characters at least) and have lowercase alphanumerics or dashes between.
C23_RetrieverNamePattern ==
    CodecDone("valid_name")
        => LET name == enumv.x.s
           IN  enumv.out.val
                   <=> /\ Len(name) \in 2 .. 39
                       /\ OnlyNameChars(name)
                       /\ InClass(CharAt(name, 1), LowerAlnum)
                       /\ InClass(CharAt(name, Len(name)), LowerAlnum)

---------------------------------------------------------------------------
(* Claims about concurrent updates (SpecTasks) *)

\* The field an update of an entity of this kind writes.
UpdatedField(kind, entity) ==
    IF kind = "Chunk" THEN entity.data.string_value ELSE entity.display_name

\* The same field of the entity an update request carries.
RequestedField(kind, request) ==
    IF kind = "Chunk" THEN request.entity.data.items[1][2] ELSE request.entity.display_name

\* C29: update_async suspends at its remote call only.  Whenever the event
\* loop is free every task is before its update, waiting for its call, or
\* finished, and the entity holds its first value or the whole update of
\* one task; each request sent carries the value its own task wrote; and
\* once all tasks have finished the entity holds the value of the task that
\* mutated it last, in whatever order the calls were answered.
C29_UpdateSuspendsAtTheCallOnly ==
    /\ task.running = 0
          => /\ \A i \in TaskIds : task.co[i].pc \in {"new", "await", "done", "raised"}
             /\ UpdatedField(task.kind, ent[task.kind])
                   \in {Str("old")} \cup {TaskValue(i) : i \in TaskIds}
    /\ \A n \in DOMAIN last.sent :
           RequestedField(task.kind, last.sent[n].call.request) = TaskValue(last.sent[n].id)
    /\ ((\A i \in TaskIds : task.co[i].pc \in {"done", "raised"}) /\ last.order # <<>>)
          => UpdatedField(task.kind, ent[task.kind]) = TaskValue(last.order[Len(last.order)])

\* C29 witness: two tasks have updated the Corpus; the second mutated last,
\* its call was answered first, and the Corpus holds the second's value.
C29_Witness ==
    /\ task.kind = "Corpus"
    /\ \A i \in TaskIds : task.co[i].pc = "done"
    /\ last.order = <<1, 2>>
    /\ last.replied = <<2, 1>>
    /\ Len(last.sent) = 2
    /\ ent.Corpus.display_name = TaskValue(2)

====
